---- MODULE Spec2Model ----
(***************************************************************************)
(* A model of the grok bot (Discord + Telegram): the LLM call and its      *)
(* retry wrapper, the bounded tool-call protocol, rolling summaries, the   *)
(* digest send guard, the history builder and the persona store.           *)
(*                                                                         *)
(* Each area has its own variables, initial predicate and next-state       *)
(* relation; a specification of one area leaves the others unchanged.      *)
(***************************************************************************)
EXTENDS Integers, Sequences, FiniteSets, TLC

VARIABLES
    \* --- one call of AIService.generate_response under async_retry ---
    rPc,          \* "idle" | "calling" | "sleeping" | "returned" | "raised"
    rFunc,        \* the wrapped function: "generate_response" | "summarize_conversation"
    rAttempt,     \* the wrapper's loop variable `attempt`
    rDelay,       \* the wrapper's `current_delay`, in seconds
    rScript,      \* what the LLM client does on each successive call
    rClientCalls, \* number of client.chat.completions.create calls made
    rSleeps,      \* the asyncio.sleep durations, in order
    rResult,      \* what the caller got: a message, or the raised exception
    \* --- one user turn of the tool-call protocol ---
    tPc,          \* "idle" | "first" | "tool" | "exec" | "followup" | "done" | "crashed"
    tImpl,        \* which implementation handles the turn
    tHistory,     \* the history list of the handler that runs the protocol
    tLlmCalls,    \* the generate_response calls of the turn, each with whether tools
                  \* were offered and how many tool_calls the response carried
    tToolCalls,   \* tool_calls of the first response
    tExecuted,    \* indexes (into tToolCalls) of the executors that were invoked
    tToolResult,  \* the tool_result string handed to the follow-up call
    tLogged,      \* db.log_error records written in the turn
    tReply,       \* the text sent back to the user
    \* --- one call of ChatService.build_message_history ---
    hPc,          \* "idle" | "built"
    hMessages,    \* the messages argument, oldest first; a message's id is its position
    hMax,         \* the max_messages argument
    hHistory,     \* the returned list
    \* --- the persona store (tables personas and guild_configs) ---
    personas,     \* the rows of personas: a set of [id, name]
    pNextId,      \* the next AUTOINCREMENT id of personas
    pBinding,     \* guild_configs: guild -> active_persona_id, 0 for no row
    pDeleteMenu,  \* the ids offered by an open Discord delete menu
    pLast,        \* the last persona operation and what it returned
    \* --- rolling summaries (table summaries) ---
    sChannel,     \* the channel a behaviour follows (rows of different channels
                  \* are independent: every statement is keyed by channel_id)
    sLog,         \* channel -> number of messages posted; their ids are 1..sLog[ch]
    sRow,         \* channel -> the summaries row: exists, content, last_msg_id
    sTasks,       \* the summarization passes in flight
    sServicePasses, \* the calls of ChatService.update_summary so far
    sLastPass,    \* the most recent pass that was triggered, as it was triggered
    sLastTurn,    \* the most recent handled message: what the handler counted and did
    \* --- digest sending ---
    processing_users, \* Digest.processing_users of the Discord cog
    dSends,       \* the Discord send_digest calls in flight, in order of entry
    dDue,         \* user -> whether _is_due holds for the user's settings row
    dLoopWait,    \* the user whose send digest_loop awaits, or "none"
    dLast,        \* what the last Discord trigger came to
    dGreeted,     \* user -> the greetings that scheduled runs of digest_loop
                  \* posted on the user's current local date
    tgQueue,      \* Telegram updates received and not yet handled
    tgActive,     \* the trigger_now_command that is running, or NoSend
    \* --- topic commands of one user in one guild, running together ---
    digest_topics, \* the user's rows of the table digest_topics, oldest first
    topicTasks,   \* command -> where the handler stands, and its topic
    \* --- one call of a service function, taken on its own ---
    cOp,          \* the function that was called, "none" before a call
    cArgs,        \* its arguments and what its collaborators do during the call
    cResult       \* what the call returned or raised, and what it left behind

retryVars == <<rPc, rFunc, rAttempt, rDelay, rScript, rClientCalls, rSleeps, rResult>>
histVars  == <<hPc, hMessages, hMax, hHistory>>
persVars  == <<personas, pNextId, pBinding, pDeleteMenu, pLast>>
sumVars   == <<sChannel, sLog, sRow, sTasks, sServicePasses, sLastPass, sLastTurn>>
digVars   == <<processing_users, dSends, dDue, dLoopWait, dLast, dGreeted,
               tgQueue, tgActive>>
callVars  == <<cOp, cArgs, cResult>>
topicVars == <<digest_topics, topicTasks>>
turnVars  == <<tPc, tImpl, tHistory, tLlmCalls, tToolCalls, tExecuted,
               tToolResult, tLogged, tReply>>

vars == <<retryVars, turnVars, histVars, persVars, sumVars, digVars, callVars,
          topicVars>>

----------------------------------------------------------------------------
(* Bounds of the model *)

\* longest tool_calls list a response carries
MaxToolCalls == 2
\* longest messages list handed to build_message_history
MaxHistLen == 3
\* personas rows ever inserted (the largest AUTOINCREMENT id handed out)
MaxPersonaId == 3
\* messages posted to one channel
MaxLog == 15
\* calls of ChatService.update_summary in one behaviour
MaxServicePasses == 2
\* Telegram updates waiting to be handled
MaxQueue == 2
\* largest message id in the arguments of one update_summary call
MaxUpdateId == 2
\* quarter days after the first clock reading at which is_due is called
MaxClockSteps == 7
\* most rows of digest_topics a user has before an add_topic call
MaxTopicRows == 2
\* nesting depth of the syntax trees handed to the calculator
MaxDepth == 1
\* longest of the short texts handed to chunk_text, and the largest chunk_size
\* they are split with
MaxTextLen == 5
MaxChunkSize == 3
\* The count of a user's scheduled greetings of one date stops growing here.
MaxGreetings == 2
\* The topic commands of one user that run at a time.
MaxTopicTasks == 2
\* max_topics of the guild's row of digest_configs.
MaxTopicsConfig == 2

----------------------------------------------------------------------------
(* AIService.generate_response and async_retry *)

\* The exception classes of the OpenAI client the decorator lists, and one it
\* does not list.
TransientErrors == {"APIError", "APITimeoutError", "RateLimitError"}
OtherErrors     == {"ValueError"}

\* What one client.chat.completions.create call can do: return a response with a
\* choice, return one without choices, or raise.
ClientOutcomes == {"ok", "no_choices"} \cup TransientErrors \cup OtherErrors

FallbackText == "I'm having trouble thinking right now. Please try again later."

FallbackMessage == [content |-> FallbackText, tool_calls |-> <<>>]

\* ai.py:24  @async_retry(retries=3, delay=1.0, exceptions=(APIError, ...))
GenerateRetries == 3
GenerateDelay   == 1
\* decorators.py:7  backoff: float = 2.0
RetryBackoff    == 2

\* A mutant of generate_response_body: the except clause re-raises what the
\* client raised (and the ValueError of an empty response).
generate_response_body_reraise(outcome, message) ==
    CASE outcome = "ok"         -> [kind |-> "return", value |-> message]
      [] outcome = "no_choices" -> [kind |-> "raise", exc |-> "ValueError"]
      [] OTHER                  -> [kind |-> "raise", exc |-> outcome]

\* The body of generate_response (ai.py:34-66) for one client outcome: the
\* try block returns choices[0].message; `except Exception` turns everything
\* else, the ValueError of an empty response included, into the fallback.
generate_response_body(outcome, message) ==
    CASE outcome = "ok" -> [kind |-> "return", value |-> message]
      [] OTHER          -> [kind |-> "return", value |-> FallbackMessage]

\* ai.py:68  @async_retry(retries=2, delay=2.0): exceptions defaults to (Exception,)
SummarizeRetries == 2
SummarizeDelay   == 2

\* The body of summarize_conversation (ai.py:73-90): nothing is caught, and
\* choices[0] of a response without choices raises.
summarize_conversation_body(outcome, message) ==
    CASE outcome = "ok"         -> [kind |-> "return", value |-> message]
      [] outcome = "no_choices" -> [kind |-> "raise", exc |-> "IndexError"]
      [] OTHER                  -> [kind |-> "raise", exc |-> outcome]

\* test_decorators.py:48  @async_retry(retries=2, delay=0.01, exceptions=(ValueError,));
\* the delays of this function are counted in hundredths of a second.
DecoratedRetries == 2
DecoratedDelay   == 1

\* The body of `decorated` (test_decorators.py:49-50): what the mock returns is
\* returned, what it raises is raised.
decorated_body(outcome, message) ==
    IF outcome \in {"ok", "no_choices"}
    THEN [kind |-> "return", value |-> message]
    ELSE [kind |-> "raise", exc |-> outcome]

WrappedFunctions == {"generate_response", "summarize_conversation", "decorated"}

\* The decorator arguments of each wrapped function.
Retries(f) ==
    CASE f = "generate_response" -> GenerateRetries
      [] f = "summarize_conversation" -> SummarizeRetries
      [] OTHER -> DecoratedRetries
Delay(f) ==
    CASE f = "generate_response" -> GenerateDelay
      [] f = "summarize_conversation" -> SummarizeDelay
      [] OTHER -> DecoratedDelay
Catches(f, exc) ==
    CASE f = "generate_response" -> exc \in TransientErrors
      [] f = "summarize_conversation" -> TRUE
      [] OTHER -> exc = "ValueError"

Body(f, outcome, message) ==
    CASE f = "generate_response" -> generate_response_body(outcome, message)
      [] f = "summarize_conversation" -> summarize_conversation_body(outcome, message)
      [] OTHER -> decorated_body(outcome, message)

\* The messages a successful client call can carry in this area: plain text,
\* or text with a tool call.
RetryMessages == { [content |-> "reply", tool_calls |-> <<>>],
                   [content |-> "reply", tool_calls |-> <<"web_search">>] }

NoResult == [kind |-> "none"]

InitRetry ==
    /\ rPc = "idle"
    /\ rFunc = "generate_response"
    /\ rAttempt = 0
    /\ rDelay = 0
    /\ rScript = <<>>
    /\ rClientCalls = 0
    /\ rSleeps = <<>>
    /\ rResult = NoResult

\* decorators.py:19-20: the wrapper is entered; current_delay = delay and the
\* loop starts at attempt 0.
RetryEnter(f) ==
    /\ rPc = "idle"
    /\ rPc' = "calling"
    /\ rFunc' = f
    /\ rAttempt' = 0
    /\ rDelay' = Delay(f)
    /\ rScript' = <<>>
    /\ rClientCalls' = 0
    /\ rSleeps' = <<>>
    /\ rResult' = NoResult

\* decorators.py:21-27: one attempt. The wrapped body makes one client call;
\* its return value is returned, a listed exception on the last attempt or an
\* unlisted exception is raised, a listed exception before that leads to the sleep.
RetryAttempt(outcome, message) ==
    /\ rPc = "calling"
    /\ LET r == Body(rFunc, outcome, message) IN
        /\ rClientCalls' = rClientCalls + 1
        /\ rScript' = Append(rScript, outcome)
        /\ IF r.kind = "return"
             THEN /\ rPc' = "returned"
                  /\ rResult' = r
             ELSE IF Catches(rFunc, r.exc) /\ rAttempt # Retries(rFunc)
             THEN /\ rPc' = "sleeping"
                  /\ rResult' = rResult
             ELSE /\ rPc' = "raised"
                  /\ rResult' = r
    /\ UNCHANGED <<rFunc, rAttempt, rDelay, rSleeps>>

\* A mutant of RetrySleep: current_delay is not multiplied.
RetrySleepFlat ==
    /\ rPc = "sleeping"
    /\ rSleeps' = Append(rSleeps, rDelay)
    /\ rDelay' = rDelay
    /\ rAttempt' = rAttempt + 1
    /\ rPc' = "calling"
    /\ UNCHANGED <<rFunc, rScript, rClientCalls, rResult>>

\* decorators.py:29-31: asyncio.sleep(current_delay); current_delay *= backoff;
\* the for loop moves to the next attempt.
RetrySleep ==
    /\ rPc = "sleeping"
    /\ rSleeps' = Append(rSleeps, rDelay)
    /\ rDelay' = rDelay * RetryBackoff
    /\ rAttempt' = rAttempt + 1
    /\ rPc' = "calling"
    /\ UNCHANGED <<rFunc, rScript, rClientCalls, rResult>>

\* The caller has its answer; the next call may start.
RetryLeave ==
    /\ rPc \in {"returned", "raised"}
    /\ rPc' = "idle"
    /\ UNCHANGED <<rFunc, rAttempt, rDelay, rScript, rClientCalls, rSleeps, rResult>>

----------------------------------------------------------------------------
(* The tool registry and the tool-call protocol of one user turn *)

\* tools.py:65-95: the two registered tools; any other name is unregistered.
RegisteredTools == {"web_search", "calculator"}
ToolNames == RegisteredTools \cup {"other_tool"}

\* The arguments string of a tool call, by what json.loads and the executor's
\* signature make of it: a JSON object with the executor's parameter, a JSON
\* object without it, a JSON value that is no object, and text that is no JSON.
ArgStrings == {"object_ok", "object_badkeys", "nonobject", "malformed"}

ToolCalls == [name : ToolNames, arguments : ArgStrings]

\* The tool_calls lists a response can carry (empty: tool_calls is None).
ToolCallLists == UNION { [1..n -> ToolCalls] : n \in 0..MaxToolCalls }

\* What the follow-up response may carry although no tools were offered.
FollowUpToolCallLists == { c \in ToolCallLists : Len(c) <= 1 }

\* A mutant of SelectedCall: the last requested call is taken.
SelectedCallLast(calls) == Len(calls)

\* chat_service.py:204  tool_call = ai_msg.tool_calls[0]: the (1-based) index
\* of the one call that is honoured.
SelectedCall(calls) == 1

ToolFailedText == "Tool execution failed. Please try again."

\* A mutant of ToolRegistry.execute: the lookup of the name is inside the try.
tool_registry_execute_lookup_in_try(name, arguments, executorRaises) ==
    IF name \notin RegisteredTools
    THEN [kind |-> "return", value |-> ToolFailedText, invoked |-> FALSE]
    ELSE IF arguments # "object_ok"
    THEN [kind |-> "return", value |-> ToolFailedText, invoked |-> FALSE]
    ELSE IF executorRaises
    THEN [kind |-> "return", value |-> ToolFailedText, invoked |-> TRUE]
    ELSE [kind |-> "return", value |-> "tool output", invoked |-> TRUE]

\* ToolRegistry.execute (tools.py:43-53): an unregistered name raises ValueError
\* before any executor is looked up; otherwise func(**arguments) runs inside the
\* try, and whatever it raises (a TypeError for arguments that do not fit the
\* signature included) becomes the fixed failure string.
tool_registry_execute(name, arguments, executorRaises) ==
    IF name \notin RegisteredTools
    THEN [kind |-> "raise", exc |-> "ValueError", invoked |-> FALSE]
    ELSE IF arguments # "object_ok"
    THEN [kind |-> "return", value |-> ToolFailedText, invoked |-> FALSE]
    ELSE IF executorRaises
    THEN [kind |-> "return", value |-> ToolFailedText, invoked |-> TRUE]
    ELSE [kind |-> "return", value |-> "tool output", invoked |-> TRUE]

\* The three copies of the protocol: ChatService.handle_tool_calls
\* (chat_service.py:181-241), Chat.on_message (cogs/chat.py:176-218) and
\* _handle_tool_calls (telegram_handlers/chat.py:210-248).
TurnImpls == {"service", "discord", "telegram"}

\* The tool_result of the except branch around tool_registry.execute:
\* chat_service.py:222 and telegram_handlers/chat.py:227 use the fixed string,
\* cogs/chat.py:201 formats the exception into it.
ToolErrorResult(impl) ==
    IF impl = "discord" THEN "Error executing tool: <exception text>"
    ELSE ToolFailedText

\* The history a handler built before the turn: none, or one earlier message.
TurnHistories == { <<>>, <<[role |-> "user", content |-> <<"earlier message">>]>> }

\* The system message with the tool's output (chat_service.py:231-232,
\* cogs/chat.py:206-207, telegram_handlers/chat.py:238-239).
context_injection(func_name, tool_result) ==
    [role |-> "system", content |-> <<"Tool Output for", func_name, tool_result>>]

\* The caller's list after the message was added to every copy of it.
history_after_injection_appended(impl, history, injection) ==
    Append(history, injection)

\* The caller's list after the message was added: ChatService builds a new
\* list, history + [...] (chat_service.py:232); Chat.on_message and
\* _handle_tool_calls append to the list they were given (cogs/chat.py:207,
\* telegram_handlers/chat.py:239).
history_after_injection(impl, history, injection) ==
    IF impl = "service" THEN history ELSE Append(history, injection)

InitTurn ==
    /\ tPc = "idle"
    /\ tImpl = "service"
    /\ tHistory = <<>>
    /\ tLlmCalls = <<>>
    /\ tToolCalls = <<>>
    /\ tExecuted = <<>>
    /\ tToolResult = ""
    /\ tLogged = <<>>
    /\ tReply = ""

\* A user message arrives and the handler gets to its first generate_response.
TurnStart(impl, history) ==
    /\ tPc = "idle"
    /\ tPc' = "first"
    /\ tImpl' = impl
    /\ tHistory' = history
    /\ tLlmCalls' = <<>>
    /\ tToolCalls' = <<>>
    /\ tExecuted' = <<>>
    /\ tToolResult' = ""
    /\ tLogged' = <<>>
    /\ tReply' = ""

\* The first generate_response of the turn, tools offered (cogs/chat.py:176-183,
\* telegram_handlers/chat.py:124-133). Without tool_calls the content is the reply.
TurnFirstCall(outcome, calls) ==
    /\ tPc = "first"
    /\ LET r == generate_response_body(outcome, [content |-> "reply", tool_calls |-> calls]) IN
        /\ tLlmCalls' = Append(tLlmCalls, [tools |-> TRUE, returned_calls |-> Len(calls),
                                           history |-> tHistory])
        /\ IF r.kind = "raise"
             THEN /\ tPc' = "crashed"
                  /\ UNCHANGED <<tToolCalls, tReply>>
             ELSE IF r.value.tool_calls # <<>>
             THEN /\ tPc' = "tool"
                  /\ tToolCalls' = r.value.tool_calls
                  /\ tReply' = tReply
             ELSE /\ tPc' = "done"
                  /\ tToolCalls' = <<>>
                  /\ tReply' = r.value.content
    /\ UNCHANGED <<tImpl, tHistory, tExecuted, tToolResult, tLogged>>

\* chat_service.py:204-216: tool_calls[0] is taken, json.loads parses its
\* arguments outside any try, and the status line of a registered tool reads
\* args.get(...), which only a JSON object has.
TurnParseAndStatus ==
    /\ tPc = "tool"
    /\ LET call == tToolCalls[SelectedCall(tToolCalls)] IN
        tPc' = IF call.arguments = "malformed" THEN "crashed"
               ELSE IF call.arguments = "nonobject" /\ call.name \in RegisteredTools
               THEN "crashed"
               ELSE "exec"
    /\ UNCHANGED <<tImpl, tHistory, tLlmCalls, tToolCalls, tExecuted, tToolResult, tLogged, tReply>>

\* chat_service.py:218-228: the registry executes the first call; an exception
\* becomes the error result and a db.log_error record with the tool and its args.
TurnExecute(executorRaises) ==
    /\ tPc = "exec"
    /\ LET i == SelectedCall(tToolCalls)
           call == tToolCalls[i]
           r == tool_registry_execute(call.name, call.arguments, executorRaises) IN
        /\ tExecuted' = IF r.invoked THEN Append(tExecuted, i) ELSE tExecuted
        /\ tToolResult' = IF r.kind = "raise" THEN ToolErrorResult(tImpl) ELSE r.value
        /\ tLogged' = IF r.kind = "raise"
                       THEN Append(tLogged, [tool |-> call.name, args |-> call.arguments])
                       ELSE tLogged
    /\ tPc' = "followup"
    /\ UNCHANGED <<tImpl, tHistory, tLlmCalls, tToolCalls, tReply>>

\* chat_service.py:230-241: the follow-up generate_response with tools=False;
\* its content is the reply and its tool_calls are not looked at.
TurnFollowUp(outcome, calls) ==
    /\ tPc = "followup"
    /\ LET r == generate_response_body(outcome, [content |-> "final", tool_calls |-> calls])
           injection == context_injection(tToolCalls[SelectedCall(tToolCalls)].name,
                                          tToolResult) IN
        /\ tLlmCalls' = Append(tLlmCalls, [tools |-> FALSE, returned_calls |-> Len(calls),
                                           history |-> Append(tHistory, injection)])
        /\ tHistory' = history_after_injection(tImpl, tHistory, injection)
        /\ IF r.kind = "raise"
             THEN /\ tPc' = "crashed"
                  /\ tReply' = tReply
             ELSE /\ tPc' = "done"
                  /\ tReply' = r.value.content
    /\ UNCHANGED <<tImpl, tToolCalls, tExecuted, tToolResult, tLogged>>

\* The handler has returned (or its exception has left it).
TurnEnd ==
    /\ tPc \in {"done", "crashed"}
    /\ tPc' = "idle"
    /\ UNCHANGED <<tImpl, tHistory, tLlmCalls, tToolCalls, tExecuted, tToolResult, tLogged, tReply>>

----------------------------------------------------------------------------
(* ChatService.build_message_history *)

\* constants.py:24  CONTEXT_RESET_THRESHOLD = 86400  (seconds)
CONTEXT_RESET_THRESHOLD == 86400

\* ChatMessage.timestamp is nullable (types.py:31).
NoTime == -1

\* Timestamps, in seconds: two of them exactly the threshold apart, two of them
\* one second more than the threshold apart.
TimePoints == {0, CONTEXT_RESET_THRESHOLD, 2 * CONTEXT_RESET_THRESHOLD + 1}

\* ChatMessage.author_id (types.py:30): the bot, a user, or None.
Authors == {"bot", "user", "none"}

\* ChatMessage (types.py:24-31) without its id, which is its position in the list.
Messages == [author_id : Authors, content : {"", "text"}, timestamp : TimePoints \cup {NoTime}]

\* The lists a platform hands over: oldest first, so the timestamps that are
\* present never decrease.
Chronological(msgs) ==
    \A i, j \in 1..Len(msgs) :
        (i < j /\ msgs[i].timestamp # NoTime /\ msgs[j].timestamp # NoTime)
            => msgs[i].timestamp <= msgs[j].timestamp

MessageLists ==
    { msgs \in UNION { [1..n -> Messages] : n \in 0..MaxHistLen } : Chronological(msgs) }

Min(a, b) == IF a <= b THEN a ELSE b

\* chat_service.py:101  messages[:max_messages]: the first and the last
\* position of the slice that is walked.
HistorySlice(msgs, max_messages) == <<1, Min(max_messages, Len(msgs))>>

\* chat_service.py:109-113: the role, and the content with the '[<author_id>]: '
\* prefix of a user message whose author_id is set.
HistoryEntry(msg, id) ==
    LET role == IF msg.author_id = "bot" THEN "assistant" ELSE "user" IN
    [role |-> role,
     prefix |-> IF role = "user" /\ msg.author_id # "none" THEN msg.author_id ELSE "",
     text |-> msg.content,
     id |-> id]

\* chat_service.py:115  `if content:` on the prefixed content.
EntryHasContent(e) == e.prefix # "" \/ e.text # ""

\* chat_service.py:101-116: the walk from the newest message of the slice to
\* the oldest; `i` is the position looked at, `last_msg_time` the timestamp of
\* the message looked at before it, `history` what has been inserted so far.
RECURSIVE HistoryWalk(_, _, _, _, _)
HistoryWalk(msgs, lo, i, last_msg_time, history) ==
    IF i < lo THEN history
    ELSE IF /\ last_msg_time # NoTime
            /\ msgs[i].timestamp # NoTime
            /\ last_msg_time - msgs[i].timestamp > CONTEXT_RESET_THRESHOLD
    THEN history
    ELSE LET e == HistoryEntry(msgs[i], i) IN
         HistoryWalk(msgs, lo, i - 1, msgs[i].timestamp,
                     IF EntryHasContent(e) THEN <<e>> \o history ELSE history)

\* ChatService.build_message_history (chat_service.py:81-118).
build_message_history(msgs, max_messages) ==
    LET slice == HistorySlice(msgs, max_messages) IN
    HistoryWalk(msgs, slice[1], slice[2], NoTime, <<>>)

InitHist ==
    /\ hPc = "idle"
    /\ hMessages = <<>>
    /\ hMax = 1
    /\ hHistory = <<>>

\* A caller calls build_message_history with a message list and a limit, and
\* gets the list it returns.
HistCall(msgs, max_messages) ==
    /\ hPc' = "built"
    /\ hMessages' = msgs
    /\ hMax' = max_messages
    /\ hHistory' = build_message_history(msgs, max_messages)

\* The caller is done with the result.
HistDone ==
    /\ hPc = "built"
    /\ hPc' = "idle"
    /\ hMessages' = <<>>
    /\ hMax' = 1
    /\ hHistory' = <<>>

----------------------------------------------------------------------------
(* The persona store *)

\* A persona name: a base word, whether it is written with a capital, and the
\* collision suffixes appended to it.
PersonaBases == {"Standard", "Batman"}
\* persona_service.py:141-144: the suffix a creator's collisions get.
CollisionSuffixes == {"1234"}
PersonaNames ==
    [base : PersonaBases, cap : BOOLEAN, sfx : {<<>>} \cup { <<x>> : x \in CollisionSuffixes }]

\* db.py:162  the seeded persona's name.
Standard == [base |-> "Standard", cap |-> TRUE, sfx |-> <<>>]

\* `name = ? COLLATE NOCASE`: equal up to the case of the letters.
SameNoCase(a, b) == a.base = b.base /\ a.sfx = b.sfx

Guilds == {"g1"}

\* config.TELEGRAM_ADMIN_IDS holds "admin" and not "member".
TelegramUsers == {"admin", "member"}
is_admin(user) == user = "admin"

NoOp == [op |-> "none", ok |-> TRUE]

\* db.py:150-154, 160-171: init_schema seeds the defaults when the table is
\* empty; the first boot finds it empty.
SeedIfEmpty(rows, nextId) ==
    IF rows = {} THEN rows \cup {[id |-> nextId, name |-> Standard]} ELSE rows

InitPersona ==
    /\ personas = SeedIfEmpty({}, 1)
    /\ pNextId = 2
    /\ pBinding = [g \in Guilds |-> 0]
    /\ pDeleteMenu = {}
    /\ pLast = NoOp

\* A restart: Database.connect runs init_schema again (db.py:15-19, 150-154).
Restart ==
    /\ pNextId <= MaxPersonaId \/ personas # {}
    /\ personas' = SeedIfEmpty(personas, pNextId)
    /\ pNextId' = IF personas = {} THEN pNextId + 1 ELSE pNextId
    /\ pDeleteMenu' = {}
    /\ pLast' = [op |-> "restart", ok |-> TRUE]
    /\ UNCHANGED pBinding

\* persona_service.py:135-150 (and its copies, cogs/settings.py:136-144 and
\* telegram_handlers/settings.py:115-128): the name the LLM gave gets the
\* suffix when a row equals it ignoring case, and the INSERT fails on the
\* UNIQUE(name) constraint when a row has exactly the resulting name.
CreatedName(rows, name, suffix) ==
    IF \E r \in rows : SameNoCase(r.name, name)
    THEN [name EXCEPT !.sfx = Append(name.sfx, suffix)]
    ELSE name

\* A mutant of create_persona: no except around the body.
create_persona_no_except(name, suffix, llmOk) ==
    /\ pNextId <= MaxPersonaId
    /\ LET final == CreatedName(personas, name, suffix)
           collided == llmOk /\ \E r \in personas : SameNoCase(r.name, name) IN
       IF llmOk /\ ~(\E r \in personas : r.name = final)
       THEN /\ personas' = personas \cup {[id |-> pNextId, name |-> final]}
            /\ pNextId' = pNextId + 1
            /\ pLast' = [op |-> "create", ok |-> TRUE, raised |-> FALSE,
                         collided |-> collided, failed |-> "none"]
       ELSE /\ UNCHANGED <<personas, pNextId>>
            /\ pLast' = [op |-> "create", ok |-> FALSE, raised |-> TRUE,
                         collided |-> collided,
                         failed |-> IF llmOk THEN "insert" ELSE "generate"]
    /\ UNCHANGED <<pBinding, pDeleteMenu>>

\* PersonaService.create_persona (persona_service.py:84-160). llmOk is
\* whether the generate_response call and the parsing of its content ran
\* without an exception and gave the name; the INSERT raises on UNIQUE(name)
\* (db.py:30) when a row has exactly the final name. Every exception is
\* caught (persona_service.py:158-160). collided says whether the uniqueness
\* check found a row, failed where the exception came from.
create_persona(name, suffix, llmOk) ==
    /\ pNextId <= MaxPersonaId
    /\ LET final == CreatedName(personas, name, suffix)
           collided == llmOk /\ \E r \in personas : SameNoCase(r.name, name) IN
       IF llmOk /\ ~(\E r \in personas : r.name = final)
       THEN /\ personas' = personas \cup {[id |-> pNextId, name |-> final]}
            /\ pNextId' = pNextId + 1
            /\ pLast' = [op |-> "create", ok |-> TRUE, raised |-> FALSE,
                         collided |-> collided, failed |-> "none"]
       ELSE /\ UNCHANGED <<personas, pNextId>>
            /\ pLast' = [op |-> "create", ok |-> FALSE, raised |-> FALSE,
                         collided |-> collided,
                         failed |-> IF llmOk THEN "insert" ELSE "generate"]
    /\ UNCHANGED <<pBinding, pDeleteMenu>>

\* DELETE FROM personas WHERE id = ?  (persona_service.py:80,
\* telegram_handlers/settings.py:186, cogs/settings.py:73).
DeleteRows(rows, id) == { r \in rows : r.id # id }

\* PersonaService.delete_persona (persona_service.py:77-82): any id.
delete_persona(id) ==
    /\ personas' = DeleteRows(personas, id)
    /\ pLast' = [op |-> "delete", ok |-> TRUE]
    /\ UNCHANGED <<pNextId, pBinding, pDeleteMenu>>

\* persona_delete_callback (telegram_handlers/settings.py:172-189): the id is
\* read from the callback data; a non-admin is turned away.
persona_delete_callback(user, id) ==
    /\ IF is_admin(user)
       THEN /\ personas' = DeleteRows(personas, id)
            /\ pLast' = [op |-> "tg_delete", ok |-> TRUE]
       ELSE /\ personas' = personas
            /\ pLast' = [op |-> "tg_delete", ok |-> FALSE]
    /\ UNCHANGED <<pNextId, pBinding, pDeleteMenu>>

\* Settings.delete_persona (cogs/settings.py:193-206): the menu offers the rows
\* whose name is not 'Standard'.
DiscordDeleteMenu ==
    /\ \E r \in personas : r.name # Standard
    /\ pDeleteMenu' = { r.id : r \in { q \in personas : q.name # Standard } }
    /\ pLast' = [op |-> "dc_menu", ok |-> TRUE]
    /\ UNCHANGED <<personas, pNextId, pBinding>>

\* PersonaDeleteSelect.callback (cogs/settings.py:65-77): one offered id is deleted.
DiscordDeleteSelect(id) ==
    /\ id \in pDeleteMenu
    /\ personas' = DeleteRows(personas, id)
    /\ pDeleteMenu' = {}
    /\ pLast' = [op |-> "dc_delete", ok |-> TRUE]
    /\ UNCHANGED <<pNextId, pBinding>>

\* PersonaService.set_guild_persona (persona_service.py:57-64) and the switch
\* callbacks (cogs/settings.py:28-46, telegram_handlers/settings.py:42-67).
set_guild_persona(guild, id) ==
    /\ pBinding' = [pBinding EXCEPT ![guild] = id]
    /\ pLast' = [op |-> "switch", ok |-> TRUE]
    /\ UNCHANGED <<personas, pNextId, pDeleteMenu>>

\* A system prompt is named by the row it is the system_prompt of;
\* db.py:240  "You are a helpful assistant." is the prompt of no row.
HardcodedPrompt == [persona |-> 0]

\* A mutant of get_guild_persona: the fallback is taken only by a guild
\* without a binding.
get_guild_persona_unbound_only(guild) ==
    /\ pLast' = [op |-> "get_persona", ok |-> TRUE, guild |-> guild,
                 prompt |->
                    IF \E r \in personas : r.id = pBinding[guild]
                    THEN [persona |-> pBinding[guild]]
                    ELSE IF pBinding[guild] # 0
                    THEN [persona |-> pBinding[guild]]
                    ELSE IF \E r \in personas : r.name = Standard
                    THEN [persona |-> (CHOOSE r \in personas : r.name = Standard).id]
                    ELSE HardcodedPrompt]
    /\ UNCHANGED <<personas, pNextId, pBinding, pDeleteMenu>>

\* Database.get_guild_persona (db.py:226-240): the JOIN gives a row when the
\* guild has a binding (pBinding is not 0) to an id of the personas table.
get_guild_persona(guild) ==
    /\ pLast' = [op |-> "get_persona", ok |-> TRUE, guild |-> guild,
                 prompt |->
                    IF \E r \in personas : r.id = pBinding[guild]
                    THEN [persona |-> pBinding[guild]]
                    ELSE IF \E r \in personas : r.name = Standard
                    THEN [persona |-> (CHOOSE r \in personas : r.name = Standard).id]
                    ELSE HardcodedPrompt]
    /\ UNCHANGED <<personas, pNextId, pBinding, pDeleteMenu>>

\* cogs/chat.py:83  if gap > 3600
DiscordResetGap == 3600

\* ChatService.check_and_reset_persona (chat_service.py:279-307) and
\* Chat._check_and_reset_persona (cogs/chat.py:75-94), which compares with its
\* own number: when there is a previous message (gap is not NoTime) and the
\* gap in seconds exceeds the threshold, the guild is bound to the row named
\* 'Standard', if there is one.
check_and_reset_persona(impl, guild, gap) ==
    /\ IF /\ gap # NoTime
          /\ gap > (IF impl = "discord" THEN DiscordResetGap ELSE CONTEXT_RESET_THRESHOLD)
          /\ \E r \in personas : r.name = Standard
       THEN /\ pBinding' = [pBinding EXCEPT
                               ![guild] = (CHOOSE r \in personas : r.name = Standard).id]
            /\ pLast' = [op |-> "reset", ok |-> TRUE, guild |-> guild, gap |-> gap]
       ELSE /\ pBinding' = pBinding
            /\ pLast' = [op |-> "reset", ok |-> FALSE, guild |-> guild, gap |-> gap]
    /\ UNCHANGED <<personas, pNextId, pDeleteMenu>>

----------------------------------------------------------------------------
(* Rolling summaries *)

\* One Discord channel and one Telegram chat; ChatService serves both.
Channels == {"dc", "tg"}

\* cogs/chat.py:55   channel.history(limit=20, before=message)
DiscordHistoryLimit == 20
\* cogs/chat.py:230  if len(history) > 10
DiscordSummaryTrigger == 10
\* cogs/chat.py:237  for msg in history[:5]
DiscordSummaryBatch == 5
\* telegram_handlers/chat.py:158  for _ in range(20)
TelegramChainLimit == 20
\* telegram_handlers/chat.py:142  if len(unsummarized_msgs) >= 10
TelegramSummaryTrigger == 10
\* utils/constants.py:43-44
SUMMARIZATION_THRESHOLD_DISCORD == 10
SUMMARIZATION_THRESHOLD_TELEGRAM == 2

\* The reply-chain lengths a Telegram message is given: none, and the lengths
\* on both sides of the two thresholds.
ChainLengths ==
    {0, SUMMARIZATION_THRESHOLD_TELEGRAM - 1, SUMMARIZATION_THRESHOLD_TELEGRAM,
     TelegramSummaryTrigger - 1, TelegramSummaryTrigger, TelegramSummaryTrigger + 1}

\* The ids lo..hi, oldest first.
IdRange(lo, hi) == [i \in 1..(IF hi >= lo THEN hi - lo + 1 ELSE 0) |-> lo + i - 1]
IdSet(msgs) == { msgs[i] : i \in 1..Len(msgs) }
Max(a, b) == IF a >= b THEN a ELSE b

\* db.get_channel_summary (db.py:204-211): None when the channel has no row.
NoRow == [exists |-> FALSE, content |-> {}, last_msg_id |-> 0]
\* current_summary = summary_data['content'] if summary_data else ""
\* (cogs/chat.py:146, telegram_handlers/chat.py:106); a summary's content is
\* modelled by the set of message ids folded into it.
CurrentSummary(row) == IF row.exists THEN row.content ELSE {}

\* AIService.summarize_conversation (ai.py:69-90): the new messages are folded
\* into the current summary.
summarize_conversation(current_summary, msgs) == current_summary \cup IdSet(msgs)

\* Database.update_channel_summary (db.py:213-224): an upsert that overwrites
\* content and last_msg_id.
update_channel_summary(row, content, last_msg_id) ==
    [exists |-> TRUE, content |-> content, last_msg_id |-> last_msg_id]

\* The last_msg_id a pass writes: chat_service.py:271 messages[-1].get('id', 0),
\* telegram_handlers/chat.py:264 messages[-1]["id"], cogs/chat.py:250 the literal 0.
WrittenLastMsgId(task) ==
    CASE task.impl = "discord" -> 0
      [] task.impl = "telegram" -> task.msgs[Len(task.msgs)]
      [] OTHER -> task.msgs[Len(task.msgs)]

NoPass == [impl |-> "none", ch |-> "none", msgs |-> <<>>,
           last_at_trigger |-> 0, folded_at_trigger |-> {}]
PassOf(impl, ch, msgs) ==
    [impl |-> impl, ch |-> ch, msgs |-> msgs,
     last_at_trigger |-> sRow[ch].last_msg_id,
     folded_at_trigger |-> CurrentSummary(sRow[ch])]
\* awaited: whether the caller waits for the pass: cogs/chat.py:231 starts it
\* with create_task, telegram_handlers/chat.py:143 awaits it in the handler.
TaskOf(impl, ch, msgs) ==
    [impl |-> impl, ch |-> ch, current |-> CurrentSummary(sRow[ch]), msgs |-> msgs,
     awaited |-> impl # "discord"]

\* The history entries whose message id is above the stored last_msg_id
\* (a channel without a row has none stored).
Unsummarized(history, row) == SelectSeq(history, LAMBDA id : id > row.last_msg_id)

NoTurn == [impl |-> "none", unsummarized |-> 0, row_existed |-> FALSE, triggered |-> FALSE]
TurnOf(impl, history, row, triggered) ==
    [impl |-> impl, unsummarized |-> Len(Unsummarized(history, row)),
     row_existed |-> row.exists, triggered |-> triggered]

InitSummary ==
    /\ sChannel \in Channels
    /\ sLog = [ch \in Channels |-> 0]
    /\ sRow = [ch \in Channels |-> NoRow]
    /\ sTasks = {}
    /\ sServicePasses = 0
    /\ sLastPass = NoPass
    /\ sLastTurn = NoTurn

\* A message that is not addressed to the bot: on_message returns at
\* cogs/chat.py:139, handle_message at telegram_handlers/chat.py:97-99.
PostMessage(ch) ==
    /\ ch = sChannel
    /\ sLog[ch] < MaxLog
    /\ sLog' = [sLog EXCEPT ![ch] = @ + 1]
    /\ UNCHANGED <<sChannel, sRow, sTasks, sServicePasses, sLastPass, sLastTurn>>

\* Chat._build_message_history (cogs/chat.py:51-73): the last 20 messages before
\* message n, oldest first; the entries carry no id.
DiscordHistory(n) == IdRange(Max(1, n - DiscordHistoryLimit), n - 1)

\* Chat.on_message (cogs/chat.py:134-231) for a mention, message n of the
\* channel: the history and the summary are read, the reply is posted, and a
\* pass over history[:5] is started with create_task when len(history) > 10.
DiscordOnMessage ==
    LET n == sLog["dc"] + 1
        history == DiscordHistory(n)
        batch == SubSeq(history, 1, Min(DiscordSummaryBatch, Len(history)))
    IN /\ sChannel = "dc"
       /\ n + 1 <= MaxLog
       /\ sLog' = [sLog EXCEPT !["dc"] = n + 1]
       /\ IF Len(history) > DiscordSummaryTrigger
          THEN /\ sTasks' = sTasks \cup {TaskOf("discord", "dc", batch)}
               /\ sLastPass' = PassOf("discord", "dc", batch)
          ELSE UNCHANGED <<sTasks, sLastPass>>
       /\ sLastTurn' = TurnOf("discord", history, sRow["dc"],
                              Len(history) > DiscordSummaryTrigger)
       /\ UNCHANGED <<sChannel, sRow, sServicePasses>>

\* _build_message_history (telegram_handlers/chat.py:146-180): the reply chain
\* of message n, here its k predecessors, oldest first, each with its id.
TelegramHistory(n, k) == IdRange(n - Min(k, TelegramChainLimit), n - 1)

\* handle_message (telegram_handlers/chat.py:88-143) for message n of the chat.
\* Updates are handled one at a time (bot_telegram.py:64-70), and the pass is
\* awaited inside the handler, so no turn starts while a pass of this handler
\* is in flight.
TelegramHandleMessage(k) ==
    LET n == sLog["tg"] + 1
        history == TelegramHistory(n, k)
        last_summarized_id == sRow["tg"].last_msg_id
        unsummarized_msgs == SelectSeq(history, LAMBDA id : id > last_summarized_id)
        trigger == sRow["tg"].exists /\ Len(unsummarized_msgs) >= TelegramSummaryTrigger
    IN /\ sChannel = "tg"
       /\ n + 1 <= MaxLog
       /\ k <= n - 1
       /\ ~(\E t \in sTasks : t.impl = "telegram" /\ t.awaited)
       /\ sLog' = [sLog EXCEPT !["tg"] = n + 1]
       /\ IF trigger
          THEN /\ sTasks' = sTasks \cup {TaskOf("telegram", "tg", unsummarized_msgs)}
               /\ sLastPass' = PassOf("telegram", "tg", unsummarized_msgs)
          ELSE UNCHANGED <<sTasks, sLastPass>>
       /\ sLastTurn' = TurnOf("telegram", history, sRow["tg"], trigger)
       /\ UNCHANGED <<sChannel, sRow, sServicePasses>>

\* ChatService.update_summary (chat_service.py:243-277) is entered by a caller
\* that read the row and hands over the channel's messages after last_msg_id,
\* each with its id as build_message_history makes them (chat_service.py:116);
\* an empty list returns at once
\* (chat_service.py:258-259).
ServiceUpdateSummary(ch) ==
    LET msgs == IdRange(sRow[ch].last_msg_id + 1, sLog[ch])
    IN /\ ch = sChannel
       /\ Len(msgs) > 0
       /\ sServicePasses < MaxServicePasses
       /\ sServicePasses' = sServicePasses + 1
       /\ sTasks' = sTasks \cup {TaskOf("service", ch, msgs)}
       /\ sLastPass' = PassOf("service", ch, msgs)
       /\ UNCHANGED <<sChannel, sLog, sRow, sLastTurn>>

\* The rest of a pass: summarize_conversation returns and the row is written
\* (chat_service.py:268-273, cogs/chat.py:243-250,
\* telegram_handlers/chat.py:263-266), or it raises and the pass ends with a
\* log line (chat_service.py:276-277).
SummaryDone(task, ok) ==
    /\ task \in sTasks
    /\ sTasks' = sTasks \ {task}
    /\ sRow' = IF ok
               THEN [sRow EXCEPT ![task.ch] =
                        update_channel_summary(@, summarize_conversation(task.current, task.msgs),
                                               WrittenLastMsgId(task))]
               ELSE sRow
    /\ UNCHANGED <<sChannel, sLog, sServicePasses, sLastPass, sLastTurn>>

\* The admin's memory clear (admin_service.py:31, cogs/admin.py:61,
\* telegram_handlers/admin.py:49): the row is deleted.
ClearMemory(ch) ==
    /\ sRow[ch].exists
    /\ sRow' = [sRow EXCEPT ![ch] = NoRow]
    /\ UNCHANGED <<sChannel, sLog, sTasks, sServicePasses, sLastPass, sLastTurn>>

----------------------------------------------------------------------------
(* Digest sending *)

DigestUsers == {"u1", "u2"}
NoSend == [user |-> "none", phase |-> "none", arrived_in_flight |-> FALSE]

\* The sequence without its i-th element.
RemoveAt(seq, i) == SubSeq(seq, 1, i - 1) \o SubSeq(seq, i + 1, Len(seq))

InitDigest ==
    /\ processing_users = {}
    /\ dSends = <<>>
    /\ dDue = [u \in DigestUsers |-> FALSE]
    /\ dLoopWait = "none"
    /\ dLast = [user |-> "none", origin |-> "none", outcome |-> "none"]
    /\ dGreeted = [u \in DigestUsers |-> 0]
    /\ tgQueue = <<>>
    /\ tgActive = NoSend

\* Digest._is_due (cogs/digest.py:206-238) becomes true: the user's daily_time
\* is reached on a new local date, whose last_sent_at is of an earlier date.
BecomeDue(user) ==
    /\ dDue' = [dDue EXCEPT ![user] = TRUE]
    /\ dGreeted' = [dGreeted EXCEPT ![user] = 0]
    /\ UNCHANGED <<processing_users, dSends, dLoopWait, dLast, tgQueue, tgActive>>

\* Digest.send_digest up to its first await (cogs/digest.py:240-246): a user
\* in processing_users is turned away, any other is added to it.
send_digest_enter(user, origin) ==
    IF user \in processing_users
    THEN /\ dLast' = [user |-> user, origin |-> origin, outcome |-> "rejected"]
         /\ UNCHANGED <<processing_users, dSends>>
    ELSE /\ processing_users' = processing_users \cup {user}
         /\ dSends' = Append(dSends, [user |-> user, origin |-> origin, phase |-> "locked"])
         /\ dLast' = [user |-> user, origin |-> origin, outcome |-> "started"]

\* Digest.trigger_now (cogs/digest.py:146-159) after ctx.defer(): its own check
\* and the entry of send_digest run without an await between them.
trigger_now(user) ==
    /\ send_digest_enter(user, "manual")
    /\ UNCHANGED <<dDue, dLoopWait, dGreeted, tgQueue, tgActive>>

\* Digest.digest_loop (cogs/digest.py:163-191) reaches a due user; the loop
\* awaits the send before it goes on.
digest_loop_user(user) ==
    /\ dLoopWait = "none"
    /\ dDue[user]
    /\ send_digest_enter(user, "scheduled")
    /\ dLoopWait' = IF user \in processing_users THEN "none" ELSE user
    /\ UNCHANGED <<dDue, dGreeted, tgQueue, tgActive>>

\* A return of send_digest that leaves the user in processing_users.
SendDigestLeave_keep_lock(i) ==
    /\ processing_users' = processing_users
    /\ dSends' = RemoveAt(dSends, i)
    /\ dLoopWait' = IF dSends[i].origin = "scheduled" THEN "none" ELSE dLoopWait

\* The finally clause of send_digest (cogs/digest.py:347-348) and the return
\* to the caller.
SendDigestLeave(i) ==
    /\ processing_users' = processing_users \ {dSends[i].user}
    /\ dSends' = RemoveAt(dSends, i)
    /\ dLoopWait' = IF dSends[i].origin = "scheduled" THEN "none" ELSE dLoopWait

\* send_digest from the channel lookup to the greeting (cogs/digest.py:247-300):
\* without a channel, without topics, or when the greeting cannot be sent, it
\* returns False.
send_digest_greet(i, ok) ==
    /\ i \in 1..Len(dSends)
    /\ dSends[i].phase = "locked"
    /\ IF ok
       THEN /\ dSends' = [dSends EXCEPT ![i].phase = "greeted"]
            /\ dGreeted' = IF dSends[i].origin = "scheduled"
                           THEN [dGreeted EXCEPT ![dSends[i].user] =
                                     IF @ < MaxGreetings THEN @ + 1 ELSE @]
                           ELSE dGreeted
            /\ UNCHANGED <<processing_users, dLoopWait>>
       ELSE SendDigestLeave(i) /\ UNCHANGED dGreeted
    /\ UNCHANGED <<dDue, dLast, tgQueue, tgActive>>

\* send_digest from the topics to the end (cogs/digest.py:302-348): last_sent_at
\* is written after the last topic; an exception on the way skips the write.
send_digest_finish(i, ok) ==
    /\ i \in 1..Len(dSends)
    /\ dSends[i].phase = "greeted"
    /\ SendDigestLeave(i)
    /\ dDue' = IF ok THEN [dDue EXCEPT ![dSends[i].user] = FALSE] ELSE dDue
    /\ UNCHANGED <<dLast, dGreeted, tgQueue, tgActive>>

\* A /digest_now update reaches the Telegram application; the application
\* handles updates one at a time (bot_telegram.py:64-70), so the update waits
\* while a handler runs.
TelegramUpdateArrives(user) ==
    /\ Len(tgQueue) < MaxQueue
    /\ tgQueue' = Append(tgQueue,
                    [user |-> user,
                     arrived_in_flight |-> tgActive.user = user])
    /\ UNCHANGED <<processing_users, dSends, dDue, dLoopWait, dLast, dGreeted, tgActive>>

\* trigger_now_command (telegram_handlers/digest.py:143-153) starts on the
\* oldest waiting update and calls send_digest, which has no guard
\* (telegram_handlers/digest.py:164-165).
trigger_now_command ==
    /\ tgActive = NoSend
    /\ tgQueue # <<>>
    /\ tgActive' = [user |-> Head(tgQueue).user, phase |-> "started",
                    arrived_in_flight |-> Head(tgQueue).arrived_in_flight]
    /\ tgQueue' = Tail(tgQueue)
    /\ UNCHANGED <<processing_users, dSends, dDue, dLoopWait, dLast, dGreeted>>

\* send_digest of Telegram up to the greeting
\* (telegram_handlers/digest.py:164-201); without topics it returns False.
telegram_send_digest_greet(ok) ==
    /\ tgActive.phase = "started"
    /\ tgActive' = IF ok THEN [tgActive EXCEPT !.phase = "greeted"] ELSE NoSend
    /\ UNCHANGED <<processing_users, dSends, dDue, dLoopWait, dLast, dGreeted, tgQueue>>

\* send_digest of Telegram from the topics to its return
\* (telegram_handlers/digest.py:203-285).
telegram_send_digest_finish ==
    /\ tgActive.phase = "greeted"
    /\ tgActive' = NoSend
    /\ UNCHANGED <<processing_users, dSends, dDue, dLoopWait, dLast, dGreeted, tgQueue>>

----------------------------------------------------------------------------
(* Single calls of service functions *)

NoArgs == [none |-> TRUE]

InitCall ==
    /\ cOp = "none"
    /\ cArgs = NoArgs
    /\ cResult = NoArgs

\* The call is over and the next one can be made.
CallReturn ==
    /\ cOp # "none"
    /\ cOp' = "none"
    /\ cArgs' = NoArgs
    /\ cResult' = NoArgs

\* The stored rows a channel can have when update_summary is called.
UpdateRows ==
    {NoRow} \cup [exists : {TRUE}, content : SUBSET (1..MaxUpdateId), last_msg_id : 0..MaxUpdateId]
\* The messages argument: none, or the ids lo..hi.
UpdateMessages ==
    {<<>>} \cup { IdRange(lo, hi) : lo \in 1..(MaxUpdateId + 1), hi \in 1..(MaxUpdateId + 1) }
\* What the collaborators do: both succeed, summarize_conversation raises, or
\* db.update_channel_summary raises.
UpdateOutcomes == {"ok", "llm_error", "db_error"}

\* A mutant of update_summary: the id of the first message is stored.
update_summary_first_id(row, current_summary, messages, outcome) ==
    IF messages = <<>>
    THEN [raised |-> FALSE, row |-> row, llm_calls |-> 0, writes |-> 0]
    ELSE IF outcome = "llm_error"
    THEN [raised |-> FALSE, row |-> row, llm_calls |-> 1, writes |-> 0]
    ELSE IF outcome = "db_error"
    THEN [raised |-> FALSE, row |-> row, llm_calls |-> 1, writes |-> 0]
    ELSE [raised |-> FALSE,
          row |-> update_channel_summary(row, summarize_conversation(current_summary, messages),
                                         messages[1]),
          llm_calls |-> 1, writes |-> 1]

\* A mutant of update_summary: without the except clause.
update_summary_no_except(row, current_summary, messages, outcome) ==
    IF messages = <<>>
    THEN [raised |-> FALSE, row |-> row, llm_calls |-> 0, writes |-> 0]
    ELSE IF outcome = "llm_error"
    THEN [raised |-> TRUE, row |-> row, llm_calls |-> 1, writes |-> 0]
    ELSE IF outcome = "db_error"
    THEN [raised |-> TRUE, row |-> row, llm_calls |-> 1, writes |-> 0]
    ELSE [raised |-> FALSE,
          row |-> update_channel_summary(row, summarize_conversation(current_summary, messages),
                                         messages[Len(messages)]),
          llm_calls |-> 1, writes |-> 1]

\* ChatService.update_summary (chat_service.py:243-277) as a function of the
\* stored row and its arguments: an empty list returns at 258-259, an exception
\* of the summarizer (268) or of the write (273) ends in the except clause
\* (276-277), which logs and returns.
update_summary(row, current_summary, messages, outcome) ==
    IF messages = <<>>
    THEN [raised |-> FALSE, row |-> row, llm_calls |-> 0, writes |-> 0]
    ELSE IF outcome = "llm_error"
    THEN [raised |-> FALSE, row |-> row, llm_calls |-> 1, writes |-> 0]
    ELSE IF outcome = "db_error"
    THEN [raised |-> FALSE, row |-> row, llm_calls |-> 1, writes |-> 0]
    ELSE [raised |-> FALSE,
          row |-> update_channel_summary(row, summarize_conversation(current_summary, messages),
                                         messages[Len(messages)]),
          llm_calls |-> 1, writes |-> 1]

CallUpdateSummary(row, messages, outcome) ==
    /\ cOp = "none"
    /\ cOp' = "update_summary"
    /\ cArgs' = [row |-> row, messages |-> messages, outcome |-> outcome]
    /\ cResult' = update_summary(row, CurrentSummary(row), messages, outcome)

\* Clock readings and stored UTC timestamps are minutes since midnight UTC of
\* some day 0.
MinutesPerDay == 1440
MinutesPerHour == 60

\* The zones of the rows and their offsets from UTC in minutes (no zone
\* changes its offset within the days looked at); ZoneInfo("Mars/Phobos")
\* raises, as for any key that is no zone.
ValidZone(tz) == tz # "Mars/Phobos"
ZoneOffset(tz) ==
    CASE tz = "America/Los_Angeles" -> 0 - 480
      [] tz = "Asia/Tokyo" -> 540
      [] tz = "Asia/Kolkata" -> 330
      [] OTHER -> 0

\* A mutant of astimezone: the instant's UTC wall clock is kept.
astimezone_utc(instant, tz) == instant

\* datetime.now(tz) and .astimezone(tz) (digest_service.py:155, 173-175): the
\* wall clock of a UTC instant in the zone, in minutes.
astimezone(instant, tz) == instant + ZoneOffset(tz)

\* .date() of a wall clock (digest_service.py:177).
DateOf(wall) == wall \div MinutesPerDay

\* Clock readings: every quarter day from the start of day 1.
ClockPoints == { MinutesPerDay + 360 * i : i \in 0..MaxClockSteps }
\* last_sent_at of a row never sent to (None).
NoLastSent == 0 - 1
\* Rows of user_digest_settings: daily_time 'HH:MM' as the pair
\* map(int, split(':')) makes of it; last_sent_at None or a UTC timestamp (a
\* clock reading, or a minute before one).
UserRows ==
    [timezone : {"UTC", "America/Los_Angeles", "Asia/Tokyo", "Asia/Kolkata", "Mars/Phobos"},
     daily_time : { <<0, 0>>, <<9, 30>>, <<18, 0>>, <<23, 59>> },
     last_sent_at : {NoLastSent} \cup ClockPoints \cup { t - 1 : t \in ClockPoints }]

\* DigestService.is_due (digest_service.py:151-183) at the UTC instant now_utc.
is_due(user_row, now_utc) ==
    IF ~ValidZone(user_row.timezone)
    THEN FALSE
    ELSE LET now == astimezone(now_utc, user_row.timezone)
             target_time == DateOf(now) * MinutesPerDay
                              + user_row.daily_time[1] * MinutesPerHour + user_row.daily_time[2]
         IN IF now < target_time
            THEN FALSE
            ELSE IF user_row.last_sent_at # NoLastSent
                    /\ DateOf(astimezone(user_row.last_sent_at, user_row.timezone)) = DateOf(now)
            THEN FALSE
            ELSE TRUE

CallIsDue(user_row, now_utc) ==
    /\ cOp = "none"
    /\ cOp' = "is_due"
    /\ cArgs' = [user_row |-> user_row, now_utc |-> now_utc]
    /\ cResult' = [due |-> is_due(user_row, now_utc)]

\* Topic strings are sequences of runs [c, n], n >= 1 copies of the character
\* c, adjacent runs of different characters; the characters are a space and
\* the letters a, A, b.
RECURSIVE StrLen(_)
StrLen(s) == IF s = <<>> THEN 0 ELSE s[1].n + StrLen(Tail(s))

\* s[:k]
RECURSIVE Slice(_, _)
Slice(s, k) ==
    IF s = <<>> \/ k = 0 THEN <<>>
    ELSE IF s[1].n <= k THEN <<s[1]>> \o Slice(Tail(s), k - s[1].n)
    ELSE <<[c |-> s[1].c, n |-> k]>>

\* s.strip()
strip(s) ==
    LET left == IF s # <<>> /\ s[1].c = " " THEN Tail(s) ELSE s
    IN IF left # <<>> /\ left[Len(left)].c = " " THEN SubSeq(left, 1, Len(left) - 1) ELSE left

\* COLLATE NOCASE folds the upper case ASCII letters.
RECURSIVE Fold(_)
Fold(s) ==
    IF s = <<>> THEN <<>>
    ELSE LET c == IF s[1].c = "A" THEN "a" ELSE s[1].c
             rest == Fold(Tail(s))
         IN IF rest # <<>> /\ rest[1].c = c
            THEN <<[c |-> c, n |-> s[1].n + rest[1].n]>> \o Tail(rest)
            ELSE <<[c |-> c, n |-> s[1].n]>> \o rest

\* topic[:100] (digest_service.py:67)
TopicLimit == 100
\* constants.py:31
DEFAULT_MAX_TOPICS == 10

\* The topics a caller passes: "   ", 150 a's, 100 spaces and an a, "Ab", "ab",
\* " ab " and "b".
TopicInputs ==
    { <<[c |-> " ", n |-> 3]>>,
      <<[c |-> "a", n |-> TopicLimit + 50]>>,
      <<[c |-> " ", n |-> TopicLimit], [c |-> "a", n |-> 1]>>,
      <<[c |-> "A", n |-> 1], [c |-> "b", n |-> 1]>>,
      <<[c |-> "a", n |-> 1], [c |-> "b", n |-> 1]>>,
      <<[c |-> " ", n |-> 1], [c |-> "a", n |-> 1], [c |-> "b", n |-> 1], [c |-> " ", n |-> 1]>>,
      <<[c |-> "b", n |-> 1]>> }
\* The digest_topics rows of one user in one guild before a call: topics that
\* earlier calls stored.
TopicTables ==
    LET stored == { <<[c |-> "a", n |-> TopicLimit]>>,
                    <<[c |-> "A", n |-> 1], [c |-> "b", n |-> 1]>>,
                    <<[c |-> "a", n |-> 1], [c |-> "b", n |-> 1]>>,
                    <<[c |-> "b", n |-> 1]>> }
    IN { t \in SUBSET stored : Cardinality(t) <= MaxTopicRows }

\* DigestService.get_max_topics (digest_service.py:33-42); max_topics is 0 for
\* a guild with no row of digest_configs.
get_max_topics(max_topics) == IF max_topics # 0 THEN max_topics ELSE DEFAULT_MAX_TOPICS

\* DigestService.topic_exists (digest_service.py:52-58)
topic_exists(rows, topic) == \E r \in rows : Fold(r) = Fold(topic)

\* DigestService.add_topic (digest_service.py:60-87) and the Discord command
\* Digest.add_topic (cogs/digest.py:101-126), which takes the option's text
\* as it is; settings says whether ensure_user_settings ran.
add_topic(impl, rows, max_topics, raw) ==
    LET topic == IF impl = "service" THEN strip(Slice(raw, TopicLimit)) ELSE raw
    IN IF impl = "service" /\ topic = <<>>
       THEN [ok |-> FALSE, rows |-> rows, settings |-> FALSE]
       ELSE IF Cardinality(rows) >= get_max_topics(max_topics)
       THEN [ok |-> FALSE, rows |-> rows, settings |-> TRUE]
       ELSE IF topic_exists(rows, topic)
       THEN [ok |-> FALSE, rows |-> rows, settings |-> TRUE]
       ELSE [ok |-> TRUE, rows |-> rows \cup {topic}, settings |-> TRUE]

CallAddTopic(impl, rows, max_topics, raw) ==
    /\ cOp = "none"
    /\ cOp' = "add_topic"
    /\ cArgs' = [impl |-> impl, rows |-> rows, max_topics |-> max_topics, topic |-> raw]
    /\ cResult' = add_topic(impl, rows, max_topics, raw)

\* calculator.py:6-35: the allow-lists. Of the operator node types, LShift
\* and Not stand for those that are not keys of OPERATORS; of the names, eval
\* and x for those that are in neither table.
OPERATORS == {"Add", "Sub", "Mult", "Div", "FloorDiv", "Pow", "Mod", "USub", "UAdd"}
FUNCTIONS == {"sin", "cos", "tan", "sqrt", "log", "abs", "round", "ceil", "floor"}
CONSTANTS_TABLE == {"pi", "e"}

\* A node of the syntax tree ast.parse(expression, mode='eval') gives: its
\* type; the type of its operator (BinOp, UnaryOp); its name (Name) or the
\* name of the called function (Call, "" when node.func is no Name); whether
\* its value is an int or a float (Constant); its operands or positional
\* arguments; the values of its keyword arguments (Call).
RECURSIVE ExprTrees(_)
ExprTrees(depth) ==
    LET Node(kind, op, id, numeric, args, keywords) ==
            [kind |-> kind, op |-> op, id |-> id, numeric |-> numeric,
             args |-> args, keywords |-> keywords]
        leaves ==
            { Node("Constant", "", "", b, <<>>, <<>>) : b \in BOOLEAN }
              \cup { Node("Name", "", id, FALSE, <<>>, <<>>) : id \in {"pi", "x"} }
              \cup { Node(k, "", "", FALSE, <<>>, <<>>) : k \in {"Attribute", "Subscript"} }
    IN IF depth = 0 THEN leaves
       ELSE LET sub == ExprTrees(depth - 1)
                lists == {<<>>} \cup { <<t>> : t \in sub }
            IN sub
                 \cup { Node("BinOp", op, "", FALSE, <<l, r>>, <<>>) :
                            op \in {"Add", "LShift"}, l \in sub, r \in sub }
                 \cup { Node("UnaryOp", op, "", FALSE, <<t>>, <<>>) :
                            op \in {"USub", "Not"}, t \in sub }
                 \cup { Node("Call", "", f, FALSE, a, k) :
                            f \in {"abs", "eval", ""}, a \in lists, k \in lists }

\* safe_eval (calculator.py:37-76): "value" when the node evaluates to a
\* number, else the exception it raises. A call of a listed function evaluates
\* node.args and nothing else of the call (65-66); abs stands for the listed
\* functions, and raises TypeError unless it is given one argument.
RECURSIVE safe_eval(_)
safe_eval(node) ==
    LET RECURSIVE first_failure(_, _)
        first_failure(args, i) ==
            IF i > Len(args) THEN "value"
            ELSE LET v == safe_eval(args[i]) IN
                 IF v # "value" THEN v ELSE first_failure(args, i + 1)
    IN CASE node.kind = "Constant" ->
              IF node.numeric THEN "value" ELSE "ValueError"
         [] node.kind \in {"BinOp", "UnaryOp"} ->
              LET v == first_failure(node.args, 1) IN
              IF v # "value" THEN v
              ELSE IF node.op \in OPERATORS THEN "value" ELSE "ValueError"
         [] node.kind = "Call" ->
              IF node.id = "" THEN "ValueError"
              ELSE IF node.id \notin FUNCTIONS THEN "ValueError"
              ELSE LET v == first_failure(node.args, 1) IN
                   IF v # "value" THEN v
                   ELSE IF Len(node.args) # 1 THEN "TypeError" ELSE "value"
         [] node.kind = "Name" ->
              IF node.id \in CONSTANTS_TABLE THEN "value" ELSE "ValueError"
         [] OTHER -> "ValueError"

\* calculate (calculator.py:78-106) of an expression given by what len and
\* ast.parse make of it: whether it is longer than 200 characters, and its
\* tree, a node of type Statement when it is no expression (ast.parse raises
\* SyntaxError). The result is a number as text or a text beginning 'Error'.
calculate(too_long, parsed) ==
    IF too_long THEN [raised |-> FALSE, text |-> "Error"]
    ELSE IF parsed.kind = "Statement" THEN [raised |-> FALSE, text |-> "Error"]
    ELSE IF safe_eval(parsed) = "value" THEN [raised |-> FALSE, text |-> "number"]
    ELSE [raised |-> FALSE, text |-> "Error"]

CallCalculate(too_long, parsed) ==
    /\ cOp = "none"
    /\ cOp' = "calculate"
    /\ cArgs' = [too_long |-> too_long, parsed |-> parsed]
    /\ cResult' = calculate(too_long, parsed)

\* A text is a sequence of characters: the letters a and b, the space, and
\* the newline, which lstrip() strips and rfind(" ") does not find.

\* A mutant of split_index: the forced split is one character late.
split_index_late(text, chunk_size) ==
    LET spaces == { i \in 1..chunk_size : text[i] = " " }
    IN IF spaces = {} THEN chunk_size + 1
       ELSE (CHOOSE i \in spaces : \A j \in spaces : j <= i) - 1

\* chunker.py:16-20, for a text longer than chunk_size: the index of the last
\* space among the first chunk_size characters (the number of characters
\* before it), chunk_size when there is none.
split_index(text, chunk_size) ==
    LET spaces == { i \in 1..chunk_size : text[i] = " " }
    IN IF spaces = {} THEN chunk_size
       ELSE (CHOOSE i \in spaces : \A j \in spaces : j <= i) - 1

\* A mutant of remaining_text: the character at the split is skipped
\* instead of the whitespace being stripped.
remaining_text_skip(text, index) == SubSeq(text, index + 2, Len(text))

\* chunker.py:23  text[split_index:].lstrip()
remaining_text(text, index) ==
    LET kept == { i \in (index + 1)..Len(text) : text[i] \notin {" ", "\n"} }
    IN IF kept = {} THEN <<>>
       ELSE SubSeq(text, CHOOSE i \in kept : \A j \in kept : i <= j, Len(text))

\* chunker.py:10-23: the chunks the loop appends.
RECURSIVE chunk_loop(_, _)
chunk_loop(text, chunk_size) ==
    IF text = <<>> THEN <<>>
    ELSE IF Len(text) <= chunk_size THEN <<text>>
    ELSE LET index == split_index(text, chunk_size)
         IN <<SubSeq(text, 1, index)>>
               \o chunk_loop(remaining_text(text, index), chunk_size)

\* chunk_text (chunker.py:1-25)
chunk_text(text, chunk_size) ==
    IF Len(text) <= chunk_size THEN <<text>> ELSE chunk_loop(text, chunk_size)

CallChunkText(text, chunk_size) ==
    /\ cOp = "none"
    /\ cOp' = "chunk_text"
    /\ cArgs' = [text |-> text, chunk_size |-> chunk_size]
    /\ cResult' = [chunks |-> chunk_text(text, chunk_size)]

\* The rows the Telegram administrative handlers write: the personas, the
\* chat's active_persona_id (0 without a row of guild_configs), whether the
\* chat has a row of summaries, and the ids of the rows of error_logs.
AdminStores ==
    LET batman == [id |-> 2, name |-> [base |-> "Batman", cap |-> TRUE, sfx |-> <<>>]]
    IN [personas : { {[id |-> 1, name |-> Standard]},
                     {[id |-> 1, name |-> Standard], batman} },
        binding : 0..2,
        summary : BOOLEAN,
        error_logs : SUBSET {1}]

\* The five handlers without the test of logs_clear_command.
telegram_admin_handler_open_logs(handler, user, store, id, name) ==
    IF handler = "logs_clear_command" THEN [store EXCEPT !.error_logs = {}]
    ELSE IF ~is_admin(user) THEN store
    ELSE IF handler = "persona_callback" THEN [store EXCEPT !.binding = id]
    ELSE IF handler = "persona_delete_callback"
    THEN [store EXCEPT !.personas = DeleteRows(@, id)]
    ELSE IF handler = "memory_clear_command" THEN [store EXCEPT !.summary = FALSE]
    ELSE store

\* What a handler leaves in the store: persona_callback
\* (telegram_handlers/settings.py:42-67) with the id of its callback data,
\* persona_create_command (70-140) with the name it parsed,
\* persona_delete_callback (172-189), memory_clear_command
\* (telegram_handlers/admin.py:42-52) and logs_clear_command (88-96). Each one
\* begins with the test of is_admin and returns when it fails.
telegram_admin_handler(handler, user, store, id, name) ==
    IF handler = "persona_callback"
    THEN IF ~is_admin(user) THEN store ELSE [store EXCEPT !.binding = id]
    ELSE IF handler = "persona_create_command"
    THEN IF ~is_admin(user) THEN store
         ELSE LET final == CreatedName(store.personas, name, "1234")
                  \* AUTOINCREMENT (db.py:29): above the ids of the stores' rows
                  new_id == 3
              IN IF \E r \in store.personas : r.name = final
                 THEN store
                 ELSE [store EXCEPT !.personas = @ \cup {[id |-> new_id, name |-> final]}]
    ELSE IF handler = "persona_delete_callback"
    THEN IF ~is_admin(user) THEN store
         ELSE [store EXCEPT !.personas = DeleteRows(@, id)]
    ELSE IF handler = "memory_clear_command"
    THEN IF ~is_admin(user) THEN store ELSE [store EXCEPT !.summary = FALSE]
    ELSE IF ~is_admin(user) THEN store ELSE [store EXCEPT !.error_logs = {}]

CallTelegramAdmin(handler, user, store, id, name) ==
    /\ cOp = "none"
    /\ cOp' = "telegram_admin"
    /\ cArgs' = [handler |-> handler, user |-> user, store |-> store, id |-> id,
                 name |-> name]
    /\ cResult' = [store |-> telegram_admin_handler(handler, user, store, id, name)]

----------------------------------------------------------------------------
(* Topic commands running together *)

\* The handlers of /digest topics add and remove are coroutines of one event
\* loop: another handler can run at each await of a statement on db.conn.
IdleTask == [pc |-> "idle", topic |-> <<>>]
\* "Ab", "ab" and "b"
RaceTopics ==
    { <<[c |-> "A", n |-> 1], [c |-> "b", n |-> 1]>>,
      <<[c |-> "a", n |-> 1], [c |-> "b", n |-> 1]>>,
      <<[c |-> "b", n |-> 1]>> }

InitTopics ==
    /\ digest_topics = <<>>
    /\ topicTasks = [t \in 1..MaxTopicTasks |-> IdleTask]

\* Digest.add_topic up to the SELECT COUNT (cogs/digest.py:101-109;
\* digest_service.py:67-72): the settings row is ensured and the limit read.
add_topic_start(t, topic) ==
    /\ topicTasks[t].pc = "idle"
    /\ topicTasks' = [topicTasks EXCEPT ![t] = [pc |-> "count", topic |-> topic]]
    /\ UNCHANGED digest_topics

\* The count check (cogs/digest.py:111-116; digest_service.py:73-76).
add_topic_count(t) ==
    /\ topicTasks[t].pc = "count"
    /\ topicTasks' = [topicTasks EXCEPT ![t] =
                         IF Len(digest_topics) >= get_max_topics(MaxTopicsConfig)
                         THEN IdleTask ELSE [@ EXCEPT !.pc = "exists"]]
    /\ UNCHANGED digest_topics

\* The duplicate check (cogs/digest.py:118-122; digest_service.py:78-79).
add_topic_exists(t) ==
    /\ topicTasks[t].pc = "exists"
    /\ topicTasks' = [topicTasks EXCEPT ![t] =
                         IF topic_exists({ digest_topics[i] : i \in 1..Len(digest_topics) },
                                         topicTasks[t].topic)
                         THEN IdleTask ELSE [@ EXCEPT !.pc = "insert"]]
    /\ UNCHANGED digest_topics

\* The INSERT and the commit (cogs/digest.py:124-126; digest_service.py:81-86);
\* the table has no UNIQUE constraint (db.py:95-102).
add_topic_insert(t) ==
    /\ topicTasks[t].pc = "insert"
    /\ digest_topics' = Append(digest_topics, topicTasks[t].topic)
    /\ topicTasks' = [topicTasks EXCEPT ![t] = IdleTask]

\* Digest.remove_topic (cogs/digest.py:128-132; digest_service.py:89-95): the
\* DELETE compares the topic as it is written.
remove_topic(t, topic) ==
    /\ topicTasks[t].pc = "idle"
    /\ digest_topics' = SelectSeq(digest_topics, LAMBDA r : r # topic)
    /\ UNCHANGED topicTasks

----------------------------------------------------------------------------
(* The tool-call protocol: claims *)

\* C1: a turn whose first response carries tool_calls makes exactly two LLM
\* calls, the second with tools=False, whatever the tool name and the
\* arguments string are and however the execution ends.
C1_ExactlyTwoLlmCalls ==
    (tPc \in {"done", "crashed"} /\ tToolCalls # <<>>)
        => /\ Len(tLlmCalls) = 2
           /\ tLlmCalls[1].tools
           /\ ~tLlmCalls[2].tools

\* C4: in one turn at most one executor runs, it is the one of the first
\* tool call, and tool_calls of the follow-up response run nothing.
C4_AtMostOneExecutor ==
    /\ Len(tExecuted) <= 1
    /\ \A k \in 1..Len(tExecuted) : tExecuted[k] = 1
    /\ Len(tLlmCalls) <= 2

\* A finished turn whose first response asked for two tools and whose follow-up
\* response asked for another: the first tool's executor ran, and only it.
C4_Witness ==
    /\ tPc = "done"
    /\ Len(tToolCalls) = 2
    /\ Len(tLlmCalls) = 2
    /\ tLlmCalls[2].returned_calls > 0
    /\ tExecuted = <<1>>

\* C13: the tool result handed to the follow-up call is the tool's output or,
\* when the execution failed, exactly the fixed failure string.
C13_OpaqueToolFailure ==
    tPc = "followup" => tToolResult \in {"tool output", ToolFailedText}

\* C14: every failed tool execution leaves a db.log_error record that names
\* the tool and its arguments.
C14_ToolFailureLogged ==
    (tPc = "followup" /\ tToolResult # "tool output")
        => \E i \in 1..Len(tLogged) :
              tLogged[i] = [tool |-> tToolCalls[SelectedCall(tToolCalls)].name,
                            args |-> tToolCalls[SelectedCall(tToolCalls)].arguments]

\* C28: executing an unregistered name raises (the handler's except branch
\* ran and recorded it) and runs no executor; executing a registered name
\* never raises and gives the tool's output, or the fixed failure string when
\* the executor raised or the arguments do not fit its parameters.
C28_ExecuteContract ==
    tPc = "followup" =>
        LET call == tToolCalls[SelectedCall(tToolCalls)] IN
        IF call.name \notin RegisteredTools
        THEN /\ tExecuted = <<>>
             /\ tLogged = <<[tool |-> call.name, args |-> call.arguments]>>
        ELSE /\ tLogged = <<>>
             /\ tToolResult \in {"tool output", ToolFailedText}
             /\ call.arguments # "object_ok" => tToolResult = ToolFailedText
             /\ tToolResult = "tool output" => tExecuted # <<>>

\* A registered tool was called with arguments that do not fit its
\* parameters: the failure string came back and nothing was raised.
C28_Witness ==
    /\ tPc = "followup"
    /\ tToolCalls[SelectedCall(tToolCalls)].name \in RegisteredTools
    /\ tToolCalls[SelectedCall(tToolCalls)].arguments = "object_badkeys"
    /\ tToolResult = ToolFailedText
    /\ tLogged = <<>>

\* C36: while ChatService.handle_tool_calls runs, the caller's history list
\* stays as it was, and the follow-up call gets that list with the tool output
\* message at its end.
C36_CallerHistoryUnchanged ==
    /\ [][(tImpl = "service" /\ tPc # "idle") => tHistory' = tHistory]_vars
    /\ [](tImpl = "service" /\ Len(tLlmCalls) = 2
            => /\ tLlmCalls[1].history = tHistory
               /\ Len(tLlmCalls[2].history) = Len(tHistory) + 1
               /\ SubSeq(tLlmCalls[2].history, 1, Len(tHistory)) = tHistory
               /\ tLlmCalls[2].history[Len(tHistory) + 1].content[1] = "Tool Output for")

\* ChatService.handle_tool_calls has returned the follow-up's reply for a
\* caller whose history holds an earlier message.
C36_Witness ==
    /\ tImpl = "service"
    /\ tPc = "done"
    /\ Len(tLlmCalls) = 2
    /\ Len(tHistory) = 1
    /\ Len(tLlmCalls[2].history) = 2

----------------------------------------------------------------------------
(* generate_response under async_retry: claims *)

\* C7: generate_response never raises; whenever the client raised or returned
\* no choices, the caller gets the apology message with no tool_calls.
C7_NeverRaises ==
    rFunc = "generate_response" =>
        /\ rPc # "raised"
        /\ (rPc = "returned" /\ rScript[Len(rScript)] # "ok")
              => rResult.value = FallbackMessage

\* generate_response has returned the apology after the client raised.
C7_Witness ==
    /\ rFunc = "generate_response"
    /\ rPc = "returned"
    /\ rScript[Len(rScript)] \in TransientErrors \cup OtherErrors
    /\ rResult.value.content = FallbackText
    /\ rResult.value.tool_calls = <<>>

\* C8: a transient client failure in generate_response is retried; the
\* apology is returned only after retries + 1 = 4 client calls have failed.
C8_RetriedBeforeFallback ==
    (/\ rFunc = "generate_response"
     /\ rPc = "returned"
     /\ rScript[Len(rScript)] \in TransientErrors)
        => rClientCalls = GenerateRetries + 1

\* The client outcomes that are exceptions outside the transient classes (a
\* response without choices raises ValueError or IndexError in the body).
NonTransient == OtherErrors \cup {"no_choices"}

\* C17: in generate_response and summarize_conversation a client call that
\* failed with a non-transient exception is not followed by another client call.
C17_NonTransientNotRetried ==
    rFunc \in {"generate_response", "summarize_conversation"} =>
        \A i \in 1..Len(rScript) : rScript[i] \in NonTransient => i = Len(rScript)

RECURSIVE Pow(_, _)
Pow(b, e) == IF e = 0 THEN 1 ELSE b * Pow(b, e - 1)

\* The i-th attempt of the call raised an exception the decorator lists.
ListedFailure(i) ==
    /\ Body(rFunc, rScript[i], [content |-> "reply", tool_calls |-> <<>>]).kind = "raise"
    /\ Catches(rFunc, Body(rFunc, rScript[i], [content |-> "reply", tool_calls |-> <<>>]).exc)

\* C18: the wrapper invokes the function at most retries + 1 times, returns
\* the value of the first attempt that succeeds, re-raises the last listed
\* exception after exactly retries + 1 invocations, lets an unlisted exception
\* out at once, and sleeps delay * backoff^(k-1) before the k-th retry and not
\* after the last failure.
C18_RetryContract ==
    /\ rClientCalls <= Retries(rFunc) + 1
    /\ rClientCalls = Len(rScript)
    /\ \A i \in 1..(Len(rScript) - 1) : ListedFailure(i)
    /\ rPc = "returned" =>
          rResult = Body(rFunc, rScript[Len(rScript)], rResult.value)
    /\ rPc = "raised" =>
          /\ rResult.exc = Body(rFunc, rScript[Len(rScript)],
                                 [content |-> "reply", tool_calls |-> <<>>]).exc
          /\ IF Catches(rFunc, rResult.exc)
             THEN rClientCalls = Retries(rFunc) + 1
             ELSE TRUE
    /\ \A k \in 1..Len(rSleeps) : rSleeps[k] = Delay(rFunc) * Pow(RetryBackoff, k - 1)
    /\ rPc \in {"returned", "raised"} => Len(rSleeps) = rClientCalls - 1

\* Every attempt raised a listed exception: two sleeps, then the third
\* exception went to the caller.
C18_Witness ==
    /\ rFunc = "decorated"
    /\ rPc = "raised"
    /\ rScript = <<"ValueError", "ValueError", "ValueError">>
    /\ rSleeps = <<DecoratedDelay, DecoratedDelay * RetryBackoff>>

----------------------------------------------------------------------------
(* build_message_history: claims *)

\* Two neighbours of the list, both with a timestamp, lie more than the
\* threshold apart.
IdleGapAfter(msgs, i) ==
    /\ msgs[i].timestamp # NoTime
    /\ msgs[i + 1].timestamp # NoTime
    /\ msgs[i + 1].timestamp - msgs[i].timestamp > CONTEXT_RESET_THRESHOLD

\* C5: when two consecutive input messages are more than
\* CONTEXT_RESET_THRESHOLD apart, the returned history holds only messages
\* newer than the gap.
C5_TruncatesAtGap ==
    hPc = "built" =>
        \A i \in 1..(Len(hMessages) - 1) :
            IdleGapAfter(hMessages, i)
                => \A k \in 1..Len(hHistory) : hHistory[k].id > i

\* Every message of the list gets an entry when it is walked, and no two
\* timestamps of the list lie more than the threshold apart.
AllEligible(msgs) ==
    /\ \A i \in 1..Len(msgs) : EntryHasContent(HistoryEntry(msgs[i], i))
    /\ \A i, j \in 1..Len(msgs) :
          (i < j /\ msgs[i].timestamp # NoTime /\ msgs[j].timestamp # NoTime)
              => msgs[j].timestamp - msgs[i].timestamp <= CONTEXT_RESET_THRESHOLD

\* C6: given more than max_messages eligible messages, oldest first, the
\* result is the max_messages most recent ones, oldest first.
C6_MostRecentMax ==
    (hPc = "built" /\ Len(hMessages) > hMax /\ AllEligible(hMessages))
        => /\ Len(hHistory) = hMax
           /\ \A k \in 1..Len(hHistory) :
                 hHistory[k].id = Len(hMessages) - hMax + k

\* C25: an entry of the returned history has role 'assistant' exactly when
\* its message's author_id is the bot's, and every other entry has role 'user'
\* and carries the '[<author_id>]: ' prefix of its message's author_id, a
\* missing one included.
C25_RoleAndPrefix ==
    hPc = "built" =>
        \A k \in 1..Len(hHistory) :
            LET e == hHistory[k]
                msg == hMessages[e.id]
            IN /\ e.role = "assistant" <=> msg.author_id = "bot"
               /\ e.role # "assistant" => (e.role = "user" /\ e.prefix = msg.author_id)

\* C26: no entry of the returned history carries the id of an input message
\* whose content is empty.
C26_EmptyContentSkipped ==
    hPc = "built" =>
        \A k \in 1..Len(hHistory) : hMessages[hHistory[k].id].content # ""

\* C37: two entries of the returned history whose messages both have a
\* timestamp, with no timestamped message between them in the input, are at
\* most CONTEXT_RESET_THRESHOLD apart.
C37_NoGapAcrossNullTimestamp ==
    hPc = "built" =>
        \A a, b \in 1..Len(hHistory) :
            LET i == hHistory[a].id
                j == hHistory[b].id
            IN (/\ i < j
                /\ hMessages[i].timestamp # NoTime
                /\ hMessages[j].timestamp # NoTime
                /\ \A k \in (i + 1)..(j - 1) : hMessages[k].timestamp = NoTime)
                   => hMessages[j].timestamp - hMessages[i].timestamp
                          <= CONTEXT_RESET_THRESHOLD

----------------------------------------------------------------------------
(* The persona store: claims *)

\* C9: a persona named 'Standard' exists in every state after the first boot.
C9_StandardExists == \E r \in personas : r.name = Standard

\* C21: a creation whose generated name equals a stored name ignoring case
\* reports success (the persona is stored under the suffixed name), however
\* often the same creator collides.
C21_CollisionNeverErrors ==
    (pLast.op = "create" /\ pLast.collided) => pLast.ok

\* C22: no two stored personas have names that are equal ignoring case.
C22_NamesUniqueNoCase ==
    \A r, q \in personas : SameNoCase(r.name, q.name) => r = q

\* C23: create_persona never raises, and a creation that reports failure
\* leaves the personas table as it was.
C23_CreateNeverRaises ==
    /\ [](pLast.op = "create" => ~pLast.raised)
    /\ [][(pLast'.op = "create" /\ ~pLast'.ok) => personas' = personas]_vars

\* A creation that failed at the INSERT, and was reported as (False, message).
C23_Witness ==
    /\ pLast.op = "create"
    /\ ~pLast.ok
    /\ pLast.failed = "insert"

\* C24: a check with a previous message and a gap above
\* CONTEXT_RESET_THRESHOLD binds the guild to the Standard persona and returns
\* True; every other check leaves the binding as it was and returns False.
C24_ResetAtHistoryThreshold ==
    [][pLast'.op = "reset" =>
          IF pLast'.gap # NoTime /\ pLast'.gap > CONTEXT_RESET_THRESHOLD
          THEN /\ pLast'.ok
               /\ \E r \in personas' :
                     r.name = Standard /\ pBinding'[pLast'.guild] = r.id
          ELSE /\ ~pLast'.ok
               /\ pBinding' = pBinding]_vars

\* C27: get_guild_persona returns the prompt of the persona the guild is
\* bound to when that persona is stored; otherwise (no binding, or a binding
\* to a deleted persona) the prompt of the Standard persona; and the hardcoded
\* prompt when Standard is not stored either.
C27_PersonaFallbackChain ==
    pLast.op = "get_persona" =>
        LET bound == { r \in personas : r.id = pBinding[pLast.guild] }
            standard == { r \in personas : r.name = Standard }
        IN /\ bound # {} => \E r \in bound : pLast.prompt = [persona |-> r.id]
           /\ (bound = {} /\ standard # {}) =>
                  \E r \in standard : pLast.prompt = [persona |-> r.id]
           /\ (bound = {} /\ standard = {}) => pLast.prompt = HardcodedPrompt

\* A guild bound to a deleted persona was given the Standard prompt.
C27_Witness ==
    /\ pLast.op = "get_persona"
    /\ pBinding[pLast.guild] # 0
    /\ ~(\E r \in personas : r.id = pBinding[pLast.guild])
    /\ \E r \in personas : r.name = Standard /\ pLast.prompt = [persona |-> r.id]

----------------------------------------------------------------------------
(* Rolling summaries: claims *)

\* C2: a write to a channel's row never stores a last_msg_id smaller than the
\* one it replaces.
C2_LastMsgIdNeverDecreases ==
    [][\A ch \in Channels :
          (sRow[ch].exists /\ sRow'[ch].exists)
              => sRow'[ch].last_msg_id >= sRow[ch].last_msg_id]_vars

\* C10: every message of a pass has an id above the last_msg_id stored when
\* the pass was triggered, and none of them was already folded into the summary.
C10_OnlyUnsummarizedHanded ==
    /\ \A i \in 1..Len(sLastPass.msgs) : sLastPass.msgs[i] > sLastPass.last_at_trigger
    /\ IdSet(sLastPass.msgs) \cap sLastPass.folded_at_trigger = {}

\* The threshold the constants give a platform (utils/constants.py:43-44).
PlatformThreshold(impl) ==
    IF impl = "discord" THEN SUMMARIZATION_THRESHOLD_DISCORD
    ELSE SUMMARIZATION_THRESHOLD_TELEGRAM

\* C11: after a reply, a pass is triggered exactly when the number of history
\* entries with an id above the stored last_msg_id is at least the platform
\* threshold, 10 on Discord and 2 on Telegram.
C11_TriggeredAtThreshold ==
    sLastTurn.impl \in {"discord", "telegram"}
        => (sLastTurn.triggered <=> sLastTurn.unsummarized >= PlatformThreshold(sLastTurn.impl))

\* C12: in a channel without a summary row, a handled message whose
\* unsummarized count has reached the platform threshold triggers a pass, and
\* a pass whose summarizer call succeeded leaves a row behind.
C12_CreatedByFirstSummarization ==
    /\ []((sLastTurn.impl \in {"discord", "telegram"} /\ ~sLastTurn.row_existed
              /\ sLastTurn.unsummarized >= PlatformThreshold(sLastTurn.impl))
            => sLastTurn.triggered)
    /\ [][\A t \in sTasks :
            (t \notin sTasks' /\ sRow' # sRow) => sRow'[t.ch].exists]_vars

\* C15: a platform handler does not wait for the pass it started.
C15_SummarizationNotAwaited ==
    \A t \in sTasks : t.impl \in {"discord", "telegram"} => ~t.awaited

\* C16: update_summary does not raise; when the summarizer or the write
\* fails the stored row is as it was; with no messages it makes no LLM call
\* and no write.
C16_UpdateSummaryContained ==
    cOp = "update_summary" =>
        /\ ~cResult.raised
        /\ (cArgs.outcome # "ok" \/ cArgs.messages = <<>>) => cResult.row = cArgs.row
        /\ cArgs.messages = <<>> => (cResult.llm_calls = 0 /\ cResult.writes = 0)

\* The summarizer failed for a channel that has a row.
C16_Witness ==
    /\ cOp = "update_summary"
    /\ cArgs.outcome = "llm_error"
    /\ cArgs.messages # <<>>
    /\ cArgs.row.exists

\* C29 as stated: after every call with a non-empty list of messages newer
\* than the stored last_msg_id, the stored last_msg_id is the id of the last
\* message of the call.
C29_StoresLastIdOfEveryCall ==
    (/\ cOp = "update_summary"
     /\ cArgs.messages # <<>>
     /\ cArgs.row.exists => cArgs.messages[1] > cArgs.row.last_msg_id)
        => /\ cResult.row.exists
           /\ cResult.row.last_msg_id = cArgs.messages[Len(cArgs.messages)]

\* C29 as amended: such a call stores the id of its last message when the
\* summarizer and the write succeed and leaves the stored last_msg_id as
\* it was when one of them fails; either way last_msg_id does not decrease.
C29_StoresLastIdOnSuccess ==
    (/\ cOp = "update_summary"
     /\ cArgs.messages # <<>>
     /\ cArgs.row.exists => cArgs.messages[1] > cArgs.row.last_msg_id)
        => /\ cArgs.outcome = "ok" =>
                 /\ cResult.row.exists
                 /\ cResult.row.last_msg_id = cArgs.messages[Len(cArgs.messages)]
           /\ cArgs.outcome # "ok" =>
                 /\ cResult.row.exists = cArgs.row.exists
                 /\ cResult.row.last_msg_id = cArgs.row.last_msg_id
           /\ cArgs.row.exists => cResult.row.last_msg_id >= cArgs.row.last_msg_id

\* A call with two newer messages on a channel that has a row succeeded.
C29_Witness ==
    /\ cOp = "update_summary"
    /\ cArgs.outcome = "ok"
    /\ cArgs.row.exists
    /\ Len(cArgs.messages) >= 2
    /\ cArgs.messages[1] > cArgs.row.last_msg_id
    /\ cResult.row.last_msg_id = cArgs.messages[Len(cArgs.messages)]

\* C19: for a row with a zone, is_due is true exactly when the zone's wall
\* clock is at or after today's daily_time and last_sent_at, moved from UTC to
\* the zone, does not fall on the zone's date of today.
C19_DueInUserZone ==
    (cOp = "is_due" /\ ValidZone(cArgs.user_row.timezone)) =>
        LET row == cArgs.user_row
            off == ZoneOffset(row.timezone)
            wall == cArgs.now_utc + off
            today == wall \div MinutesPerDay
            minute_of_day == wall % MinutesPerDay
            sent_today == /\ row.last_sent_at # NoLastSent
                          /\ (row.last_sent_at + off) \div MinutesPerDay = today
        IN cResult.due <=>
              (/\ minute_of_day >= row.daily_time[1] * MinutesPerHour + row.daily_time[2]
               /\ ~sent_today)

\* One instant, one daily_time and one last_sent_at: due in the row's zone,
\* not due for the same row in Tokyo.
C19_Witness ==
    /\ cOp = "is_due"
    /\ cResult.due
    /\ cArgs.user_row.last_sent_at # NoLastSent
    /\ ~is_due([cArgs.user_row EXCEPT !.timezone = "Asia/Tokyo"], cArgs.now_utc)

\* C20: add_topic refuses and stores nothing when the topic is empty after
\* truncation to 100 characters and trimming, when the user has the guild's
\* max-topic count of topics, or when the user has the same topic ignoring
\* case; otherwise it stores the trimmed topic, of at most 100 characters, and
\* succeeds.
C20_AddTopicContract ==
    cOp = "add_topic" =>
        LET trimmed == strip(Slice(cArgs.topic, TopicLimit))
            refused == \/ trimmed = <<>>
                       \/ Cardinality(cArgs.rows) >= get_max_topics(cArgs.max_topics)
                       \/ topic_exists(cArgs.rows, trimmed)
        IN IF refused
           THEN ~cResult.ok /\ cResult.rows = cArgs.rows
           ELSE /\ cResult.ok
                /\ cResult.rows = cArgs.rows \cup {trimmed}
                /\ StrLen(trimmed) <= TopicLimit

\* The tree has a node outside the allow-list, among its operands, its
\* positional arguments or its keyword arguments.
RECURSIVE HasDisallowedNode(_)
HasDisallowedNode(node) ==
    \/ node.kind \in {"Attribute", "Subscript", "Statement"}
    \/ node.kind = "Name" /\ node.id \notin CONSTANTS_TABLE
    \/ node.kind = "Constant" /\ ~node.numeric
    \/ node.kind = "Call" /\ node.id \notin FUNCTIONS
    \/ \E i \in 1..Len(node.args) : HasDisallowedNode(node.args[i])
    \/ \E i \in 1..Len(node.keywords) : HasDisallowedNode(node.keywords[i])

\* C30: calculate never raises, and the result for a text that is a statement
\* or whose tree has a node outside the allow-list begins with 'Error'.
C30_ClosedSandbox ==
    cOp = "calculate" =>
        /\ ~cResult.raised
        /\ HasDisallowedNode(cArgs.parsed) => cResult.text = "Error"

\* C31: every chunk is at most chunk_size long; a text no longer than
\* chunk_size, the empty one included, comes back as the one chunk; 150
\* characters without whitespace and chunk_size 50 give 3 chunks of 50.
C31_ChunksWithinSize ==
    cOp = "chunk_text" =>
        LET text == cArgs.text
            size == cArgs.chunk_size
            chunks == cResult.chunks
        IN /\ \A k \in 1..Len(chunks) : Len(chunks[k]) <= size
           /\ Len(text) <= size => chunks = <<text>>
           /\ (/\ Len(text) = 150
               /\ size = 50
               /\ \A i \in 1..Len(text) : text[i] \notin {" ", "\n"})
                 => /\ Len(chunks) = 3
                    /\ \A k \in 1..3 : Len(chunks[k]) = 50

\* 150 letters were split at 50 and 100.
C31_Witness ==
    /\ cOp = "chunk_text"
    /\ Len(cArgs.text) = 150
    /\ Len(cResult.chunks) = 3

\* The text is the chunks in their order with nothing but whitespace after
\* each of them.
RECURSIVE Reconstructs(_, _)
Reconstructs(text, chunks) ==
    IF chunks = <<>>
    THEN \A i \in 1..Len(text) : text[i] \in {" ", "\n"}
    ELSE LET n == Len(chunks[1]) IN
         /\ n <= Len(text)
         /\ SubSeq(text, 1, n) = chunks[1]
         /\ \E k \in n..Len(text) :
               /\ \A i \in (n + 1)..k : text[i] \in {" ", "\n"}
               /\ Reconstructs(SubSeq(text, k + 1, Len(text)), Tail(chunks))

\* C32: the input is the chunks in order with only whitespace put back at
\* the places where it was split.
C32_OnlyBoundaryWhitespaceLost ==
    cOp = "chunk_text" => Reconstructs(cArgs.text, cResult.chunks)

\* A text was split at a space and the whitespace after the split is not in
\* the chunks.
C32_Witness ==
    /\ cOp = "chunk_text"
    /\ cArgs.text = <<"a", " ", "\n", "b", "a">>
    /\ cArgs.chunk_size = 3
    /\ cResult.chunks = << <<"a">>, <<"b", "a">> >>

\* C35: the stored topics of a user hold no two topics equal ignoring case and
\* no more topics than the guild's limit.
C35_TopicsWellFormed ==
    /\ \A i, j \in 1..Len(digest_topics) :
          Fold(digest_topics[i]) = Fold(digest_topics[j]) => i = j
    /\ Len(digest_topics) <= get_max_topics(MaxTopicsConfig)

\* C38: a Telegram administrative handler run by a user who is not in
\* TELEGRAM_ADMIN_IDS leaves the personas, the binding, the summary and the
\* error log as they were.
C38_NonAdminChangesNothing ==
    (cOp = "telegram_admin" /\ cArgs.user \notin { u \in TelegramUsers : is_admin(u) })
        => cResult.store = cArgs.store

\* A member ran logs_clear_command on a store with an error log, a summary and
\* a persona beside Standard.
C38_Witness ==
    /\ cOp = "telegram_admin"
    /\ cArgs.user = "member"
    /\ cArgs.handler = "logs_clear_command"
    /\ cArgs.store.error_logs # {}
    /\ cArgs.store.summary
    /\ cResult.store.error_logs = cArgs.store.error_logs

----------------------------------------------------------------------------
(* Digest sending: claims *)

\* C3: no two sends of one user are in flight together, and a trigger that
\* arrived while a send of its user was in flight delivers nothing.
C3_DigestMutualExclusion ==
    /\ \A i, j \in 1..Len(dSends) : dSends[i].user = dSends[j].user => i = j
    /\ ~(tgActive.phase = "greeted" /\ tgActive.arrived_in_flight)

\* C33: the users in processing_users are exactly the users of the Discord
\* sends in flight, so the lock is held from the entry of an accepted
\* send_digest to its return and is released by every return; and a trigger is
\* turned away only while a send of its user is in flight.
C33_LockHeldAndReleased ==
    /\ [](processing_users = { dSends[i].user : i \in 1..Len(dSends) })
    /\ [][(dLast' # dLast /\ dLast'.outcome = "rejected")
            => dLast'.user \in { dSends[i].user : i \in 1..Len(dSends) }]_vars

\* A scheduled send of a due user was accepted and has returned without
\* writing last_sent_at, and the user is out of processing_users.
C33_Witness ==
    /\ dLast.origin = "scheduled"
    /\ dLast.outcome = "started"
    /\ dLast.user \notin processing_users
    /\ dDue[dLast.user]
    /\ dSends = <<>>

\* C34: scheduled runs of digest_loop post at most one greeting per user and
\* local date.
C34_OneScheduledGreetingPerDate ==
    \A u \in DigestUsers : dGreeted[u] <= 1

----------------------------------------------------------------------------
(* Specifications *)


Init ==
    /\ InitRetry
    /\ InitTurn
    /\ InitHist
    /\ InitPersona
    /\ InitSummary
    /\ InitDigest
    /\ InitCall
    /\ InitTopics

\* The tool-call protocol of one user turn.
Next ==
    \/ \E impl \in TurnImpls, history \in TurnHistories :
          TurnStart(impl, history) /\ UNCHANGED <<retryVars, histVars, persVars, sumVars, digVars, callVars, topicVars>>
    \/ \E o \in ClientOutcomes, calls \in ToolCallLists :
          TurnFirstCall(o, calls) /\ UNCHANGED <<retryVars, histVars, persVars, sumVars, digVars, callVars, topicVars>>
    \/ TurnParseAndStatus /\ UNCHANGED <<retryVars, histVars, persVars, sumVars, digVars, callVars, topicVars>>
    \/ \E b \in BOOLEAN : TurnExecute(b) /\ UNCHANGED <<retryVars, histVars, persVars, sumVars, digVars, callVars, topicVars>>
    \/ \E o \in ClientOutcomes, calls \in FollowUpToolCallLists :
          TurnFollowUp(o, calls) /\ UNCHANGED <<retryVars, histVars, persVars, sumVars, digVars, callVars, topicVars>>
    \/ TurnEnd /\ UNCHANGED <<retryVars, histVars, persVars, sumVars, digVars, callVars, topicVars>>

Spec == Init /\ [][Next]_vars

\* The retry wrapper around the two LLM calls.
NextRetry ==
    \/ \E f \in WrappedFunctions : RetryEnter(f) /\ UNCHANGED <<turnVars, histVars, persVars, sumVars, digVars, callVars, topicVars>>
    \/ \E o \in ClientOutcomes, m \in RetryMessages :
          RetryAttempt(o, m) /\ UNCHANGED <<turnVars, histVars, persVars, sumVars, digVars, callVars, topicVars>>
    \/ RetrySleep /\ UNCHANGED <<turnVars, histVars, persVars, sumVars, digVars, callVars, topicVars>>
    \/ RetryLeave /\ UNCHANGED <<turnVars, histVars, persVars, sumVars, digVars, callVars, topicVars>>

SpecRetry == Init /\ [][NextRetry]_vars

\* The history builder, applied to every chronological list within the bound.
NextHist ==
    \/ /\ hPc = "idle"
       /\ \E msgs \in MessageLists, m \in 1..MaxHistLen : HistCall(msgs, m)
       /\ UNCHANGED <<retryVars, turnVars, persVars, sumVars, digVars, callVars, topicVars>>
    \/ HistDone /\ UNCHANGED <<retryVars, turnVars, persVars, sumVars, digVars, callVars, topicVars>>

SpecHist == Init /\ [][NextHist]_vars

\* The persona operations of the service and of both platforms.
NextPersona ==
    \/ Restart /\ UNCHANGED <<retryVars, turnVars, histVars, sumVars, digVars, callVars, topicVars>>
    \/ \E n \in PersonaNames, x \in CollisionSuffixes, ok \in BOOLEAN :
          create_persona(n, x, ok) /\ UNCHANGED <<retryVars, turnVars, histVars, sumVars, digVars, callVars, topicVars>>
    \/ \E id \in 1..MaxPersonaId :
          delete_persona(id) /\ UNCHANGED <<retryVars, turnVars, histVars, sumVars, digVars, callVars, topicVars>>
    \/ \E u \in TelegramUsers, id \in 1..MaxPersonaId :
          persona_delete_callback(u, id) /\ UNCHANGED <<retryVars, turnVars, histVars, sumVars, digVars, callVars, topicVars>>
    \/ DiscordDeleteMenu /\ UNCHANGED <<retryVars, turnVars, histVars, sumVars, digVars, callVars, topicVars>>
    \/ \E id \in 1..MaxPersonaId :
          DiscordDeleteSelect(id) /\ UNCHANGED <<retryVars, turnVars, histVars, sumVars, digVars, callVars, topicVars>>
    \/ \E g \in Guilds, id \in 1..MaxPersonaId :
          set_guild_persona(g, id) /\ UNCHANGED <<retryVars, turnVars, histVars, sumVars, digVars, callVars, topicVars>>
    \/ \E g \in Guilds :
          get_guild_persona(g) /\ UNCHANGED <<retryVars, turnVars, histVars, sumVars, digVars, callVars, topicVars>>
    \/ \E impl \in {"service", "discord"}, g \in Guilds,
          gap \in {NoTime, DiscordResetGap, DiscordResetGap + 1,
                   CONTEXT_RESET_THRESHOLD, CONTEXT_RESET_THRESHOLD + 1} :
          check_and_reset_persona(impl, g, gap) /\ UNCHANGED <<retryVars, turnVars, histVars, sumVars, digVars, callVars, topicVars>>

SpecPersona == Init /\ [][NextPersona]_vars

\* Turns on both platforms, calls of the service, and the passes they start.
NextSummary ==
    \/ \E ch \in Channels :
          PostMessage(ch) /\ UNCHANGED <<retryVars, turnVars, histVars, persVars, digVars, callVars, topicVars>>
    \/ DiscordOnMessage /\ UNCHANGED <<retryVars, turnVars, histVars, persVars, digVars, callVars, topicVars>>
    \/ \E k \in ChainLengths :
          TelegramHandleMessage(k) /\ UNCHANGED <<retryVars, turnVars, histVars, persVars, digVars, callVars, topicVars>>
    \/ \E ch \in Channels :
          ServiceUpdateSummary(ch) /\ UNCHANGED <<retryVars, turnVars, histVars, persVars, digVars, callVars, topicVars>>
    \/ \E t \in sTasks, ok \in BOOLEAN :
          SummaryDone(t, ok) /\ UNCHANGED <<retryVars, turnVars, histVars, persVars, digVars, callVars, topicVars>>
    \/ \E ch \in Channels :
          ClearMemory(ch) /\ UNCHANGED <<retryVars, turnVars, histVars, persVars, digVars, callVars, topicVars>>

SpecSummary == Init /\ [][NextSummary]_vars

\* Digest triggers and sends on both platforms.
NextDigest ==
    \/ \E u \in DigestUsers :
          BecomeDue(u) /\ UNCHANGED <<retryVars, turnVars, histVars, persVars, sumVars, callVars, topicVars>>
    \/ \E u \in DigestUsers :
          trigger_now(u) /\ UNCHANGED <<retryVars, turnVars, histVars, persVars, sumVars, callVars, topicVars>>
    \/ \E u \in DigestUsers :
          digest_loop_user(u) /\ UNCHANGED <<retryVars, turnVars, histVars, persVars, sumVars, callVars, topicVars>>
    \/ \E i \in 1..Len(dSends), ok \in BOOLEAN :
          send_digest_greet(i, ok) /\ UNCHANGED <<retryVars, turnVars, histVars, persVars, sumVars, callVars, topicVars>>
    \/ \E i \in 1..Len(dSends), ok \in BOOLEAN :
          send_digest_finish(i, ok) /\ UNCHANGED <<retryVars, turnVars, histVars, persVars, sumVars, callVars, topicVars>>
    \/ \E u \in DigestUsers :
          TelegramUpdateArrives(u) /\ UNCHANGED <<retryVars, turnVars, histVars, persVars, sumVars, callVars, topicVars>>
    \/ trigger_now_command /\ UNCHANGED <<retryVars, turnVars, histVars, persVars, sumVars, callVars, topicVars>>
    \/ \E ok \in BOOLEAN :
          telegram_send_digest_greet(ok) /\ UNCHANGED <<retryVars, turnVars, histVars, persVars, sumVars, callVars, topicVars>>
    \/ telegram_send_digest_finish /\ UNCHANGED <<retryVars, turnVars, histVars, persVars, sumVars, callVars, topicVars>>

SpecDigest == Init /\ [][NextDigest]_vars

\* Digest triggers and sends of the Discord cog.
NextDiscordDigest ==
    \/ \E u \in DigestUsers :
          BecomeDue(u) /\ UNCHANGED <<retryVars, turnVars, histVars, persVars, sumVars, callVars, topicVars>>
    \/ \E u \in DigestUsers :
          trigger_now(u) /\ UNCHANGED <<retryVars, turnVars, histVars, persVars, sumVars, callVars, topicVars>>
    \/ \E u \in DigestUsers :
          digest_loop_user(u) /\ UNCHANGED <<retryVars, turnVars, histVars, persVars, sumVars, callVars, topicVars>>
    \/ \E i \in 1..Len(dSends), ok \in BOOLEAN :
          send_digest_greet(i, ok) /\ UNCHANGED <<retryVars, turnVars, histVars, persVars, sumVars, callVars, topicVars>>
    \/ \E i \in 1..Len(dSends), ok \in BOOLEAN :
          send_digest_finish(i, ok) /\ UNCHANGED <<retryVars, turnVars, histVars, persVars, sumVars, callVars, topicVars>>

SpecDiscordDigest == Init /\ [][NextDiscordDigest]_vars

\* Calls of ChatService.update_summary, one at a time.
NextUpdateSummary ==
    \/ /\ cOp = "none"
       /\ \E row \in UpdateRows, m \in UpdateMessages, o \in UpdateOutcomes :
             CallUpdateSummary(row, m, o)
       /\ UNCHANGED <<retryVars, turnVars, histVars, persVars, sumVars, digVars, topicVars>>
    \/ CallReturn /\ UNCHANGED <<retryVars, turnVars, histVars, persVars, sumVars, digVars, topicVars>>

SpecUpdateSummary == Init /\ [][NextUpdateSummary]_vars

\* Calls of DigestService.is_due, one at a time.
NextIsDue ==
    \/ /\ cOp = "none"
       /\ \E row \in UserRows, now \in ClockPoints : CallIsDue(row, now)
       /\ UNCHANGED <<retryVars, turnVars, histVars, persVars, sumVars, digVars, topicVars>>
    \/ CallReturn /\ UNCHANGED <<retryVars, turnVars, histVars, persVars, sumVars, digVars, topicVars>>

SpecIsDue == Init /\ [][NextIsDue]_vars

\* Calls of add_topic, one at a time, on the rows and the limit of one user
\* and guild.
NextAddTopic ==
    \/ /\ cOp = "none"
       /\ \E impl \in {"service", "discord"}, rows \in TopicTables,
             max_topics \in 0..MaxTopicRows, raw \in TopicInputs :
             CallAddTopic(impl, rows, max_topics, raw)
       /\ UNCHANGED <<retryVars, turnVars, histVars, persVars, sumVars, digVars, topicVars>>
    \/ CallReturn /\ UNCHANGED <<retryVars, turnVars, histVars, persVars, sumVars, digVars, topicVars>>

SpecAddTopic == Init /\ [][NextAddTopic]_vars

\* Calls of calculate, one at a time.
NextCalculate ==
    \/ /\ cOp = "none"
       /\ \E too_long \in BOOLEAN,
             parsed \in ExprTrees(MaxDepth)
                          \cup {[kind |-> "Statement", op |-> "", id |-> "", numeric |-> FALSE,
                                  args |-> <<>>, keywords |-> <<>>]} :
             CallCalculate(too_long, parsed)
       /\ UNCHANGED <<retryVars, turnVars, histVars, persVars, sumVars, digVars, topicVars>>
    \/ CallReturn /\ UNCHANGED <<retryVars, turnVars, histVars, persVars, sumVars, digVars, topicVars>>

SpecCalculate == Init /\ [][NextCalculate]_vars

\* Calls of chunk_text, one at a time: every short text with every small
\* chunk_size, and texts of 150 letters with chunk_size 50.
NextChunkText ==
    \/ /\ cOp = "none"
       /\ \E text \in UNION { [1..n -> {"a", "b", " ", "\n"}] : n \in 0..MaxTextLen },
             chunk_size \in 1..MaxChunkSize :
             CallChunkText(text, chunk_size)
       /\ UNCHANGED <<retryVars, turnVars, histVars, persVars, sumVars, digVars, topicVars>>
    \/ /\ cOp = "none"
       /\ \E text \in { [i \in 1..150 |-> "a"],
                         [i \in 1..150 |-> IF i % 2 = 1 THEN "a" ELSE "b"] } :
             CallChunkText(text, 50)
       /\ UNCHANGED <<retryVars, turnVars, histVars, persVars, sumVars, digVars, topicVars>>
    \/ CallReturn /\ UNCHANGED <<retryVars, turnVars, histVars, persVars, sumVars, digVars, topicVars>>

SpecChunkText == Init /\ [][NextChunkText]_vars

\* Topic commands of one user in one guild.
NextTopics ==
    \/ \E t \in 1..MaxTopicTasks, topic \in RaceTopics :
          add_topic_start(t, topic) /\ UNCHANGED <<retryVars, turnVars, histVars, persVars, sumVars, digVars, callVars>>
    \/ \E t \in 1..MaxTopicTasks :
          add_topic_count(t) /\ UNCHANGED <<retryVars, turnVars, histVars, persVars, sumVars, digVars, callVars>>
    \/ \E t \in 1..MaxTopicTasks :
          add_topic_exists(t) /\ UNCHANGED <<retryVars, turnVars, histVars, persVars, sumVars, digVars, callVars>>
    \/ \E t \in 1..MaxTopicTasks :
          add_topic_insert(t) /\ UNCHANGED <<retryVars, turnVars, histVars, persVars, sumVars, digVars, callVars>>
    \/ \E t \in 1..MaxTopicTasks, topic \in RaceTopics :
          remove_topic(t, topic) /\ UNCHANGED <<retryVars, turnVars, histVars, persVars, sumVars, digVars, callVars>>

SpecTopics == Init /\ [][NextTopics]_vars

\* The Telegram administrative handlers, one update at a time, run by an
\* administrator or by another member.
NextTelegramAdmin ==
    \/ /\ cOp = "none"
       /\ \E handler \in {"persona_callback", "persona_create_command",
                           "persona_delete_callback", "memory_clear_command",
                           "logs_clear_command"},
             user \in TelegramUsers, store \in AdminStores, id \in 1..2,
             name \in { n \in PersonaNames : n.sfx = <<>> } :
             CallTelegramAdmin(handler, user, store, id, name)
       /\ UNCHANGED <<retryVars, turnVars, histVars, persVars, sumVars, digVars, topicVars>>
    \/ CallReturn /\ UNCHANGED <<retryVars, turnVars, histVars, persVars, sumVars, digVars, topicVars>>

SpecTelegramAdmin == Init /\ [][NextTelegramAdmin]_vars
====
